---- MODULE Spec2Model ----
(***************************************************************************)
(* Common Grounds backend: the magic-link authentication lifecycle         *)
(* (authService, authController, authMiddleware, the socket handshake)     *)
(* over the relational store (User, MagicLink, Session rows).              *)
(*                                                                         *)
(* Every await of a service function is a yield point: a call occupies a   *)
(* slot of `proc`, and one step is one awaited store (or collaborator)     *)
(* operation together with the synchronous code that runs when it          *)
(* resolves, up to the next await.  Calls interleave at every await.       *)
(* Time is Date.now() in milliseconds since start-up.                      *)
(* Store errors are the ones the rows themselves produce (unique and       *)
(* foreign-key violations, update/delete of a missing row).                *)
(***************************************************************************)
EXTENDS Integers, Sequences, FiniteSets, TLC

\* ------------------------------------------------------------------ bounds
NumProcs  == 2
MaxTicks  == 2
MaxTokens == 2
MaxUsers  == 2
MaxSockets == 1
MaxLoginOps == 3
MaxSeqOps == 4
MaxSessionOps == 4
MaxRequestOps == 2
MaxExpiryOps == 2
MaxLogoutOps == 4
NumCalls == 2
MaxClasses == 2
MaxMessages == 7
MaxFlagOps == 8
MaxListOps == 1
MaxPostOps == 4
MaxReplyOps == 9
MaxContentOps == 2
MaxPeople == 3
MaxFriendships == 2
MaxFriendOps == 3
MaxAnswerOps == 3
MaxCacheOps == 3
MaxClassOps == 4
MaxCommonOps == 4
MaxSearchOps == 3
MaxRoomOps == 4
MaxLimitOps == 32
MaxDeleteOps == 5
MaxViewOps == 3
MaxEnrollOps == 3
MaxOutageOps == 3

\* ------------------------------------------------------- program constants
MagicLinkTTL  == 15 * 60 * 1000
SessionTTL    == 7 * 24 * 60 * 60 * 1000
JwtExpiration == 7 * 24 * 60 * 60
Domain        == "@virginia.edu"

Procs  == 1..NumProcs
Calls  == 1..NumCalls
Classes == 1..MaxClasses
UserIds == 1..MaxUsers
MsgIds == 1..MaxMessages
Tokens == 1..MaxTokens
\* the clock stops here, so that every timestamp stays a 32-bit value
Horizon == SessionTTL + MagicLinkTTL + 4 * 500

VARIABLES
    clock,       \* Date.now(), ms
    ticks,       \* number of clock advances so far
    users,       \* User rows
    magicLinks,  \* MagicLink rows
    sessions,    \* Session rows
    seq,         \* uuid / random-token generators
    outbox,      \* what the email collaborator was handed and delivered
    proc,        \* the calls in flight and their last results
    ops,         \* calls started so far
    sockets,     \* accepted socket connections
    lastConnect, \* outcome of the last socket handshake
    hist,        \* observation only: what has happened so far
    userClasses,   \* UserClass rows
    classMessages, \* ClassMessage rows
    call,          \* the class and message calls in flight, their last results
    emitted,       \* socket events sent so far
    chat,          \* the message layer outside the store: what the calls have
                   \* done (flagged) and the counters of messageLimiter (hits)
    friendships,   \* Friendship rows
    classes,       \* Class rows
    cache,         \* the redis entries
    rooms          \* the class rooms the sockets have joined

chatVars == <<userClasses, classMessages, call, emitted, chat, friendships,
             classes, cache, rooms>>

vars == <<clock, ticks, users, magicLinks, sessions, seq, outbox, proc, ops,
          sockets, lastConnect, hist, chatVars>>

\* ------------------------------------------------------------ lib/crypto.ts
\* sha256 is a collision-free one-way digest: a tagged value, never the input
Sha256(data) == <<"sha256", data>>

NoCred == [userId |-> 0, email |-> <<>>, iat |-> 0, exp |-> 0, sig |-> "none"]

\* jwt.sign(payload, secret, {expiresIn}): HS256 is deterministic, iat is in
\* whole seconds, exp = iat + expiresIn
JwtSign(userId, email, now) ==
    [userId |-> userId, email |-> email, iat |-> now \div 1000,
     exp |-> (now \div 1000) + JwtExpiration, sig |-> "valid"]

\* jwt.verify(token, secret): signature good and not past exp
JwtVerifyOk(token, now) ==
    /\ token.sig = "valid"
    /\ (now \div 1000) < token.exp

Forge(c) == [c EXCEPT !.sig = "forged"]

\* ------------------------------------------------------------------ emails
\* an address is a sequence of pieces; endsWith, toLowerCase and trim act on
\* the pieces the way the string methods act on the characters
Lower(c) == CASE c = "Bob" -> "bob"
              [] c = "@VIRGINIA.EDU" -> "@virginia.edu"
              [] OTHER -> c

ToLowerCase(s) == [i \in 1..Len(s) |-> Lower(s[i])]

RECURSIVE TrimLeft(_)
TrimLeft(s) == IF Len(s) > 0 /\ s[1] = " " THEN TrimLeft(Tail(s)) ELSE s

RECURSIVE TrimRight(_)
TrimRight(s) == IF Len(s) > 0 /\ s[Len(s)] = " "
                THEN TrimRight(SubSeq(s, 1, Len(s) - 1)) ELSE s

Trim(s) == TrimRight(TrimLeft(s))

\* email.includes(suffix) in place of email.endsWith(suffix)
EndsWithAnywhere(s, suffix) == \E i \in 1..Len(s) : s[i] = suffix

EndsWith(s, suffix) == Len(s) > 0 /\ s[Len(s)] = suffix

EmailInputs ==
    { <<"bob", "@virginia.edu">>,
      <<"Bob", "@virginia.edu">>,
      <<" ", "amy", "@virginia.edu">>,
      <<"bob", "@gmail.com">>,
      <<"bob", "@virginia.edu", " ">> }

\* --------------------------------------------------------------- the slots
NoRes == [status |-> "none", message |-> "", cause |-> "",
          user |-> {}, jwt |-> NoCred]

Idle == [op |-> "idle", pc |-> "done", email |-> <<>>, token |-> 0,
         cred |-> NoCred, exp |-> 0, user |-> {}, link |-> {}, sess |-> {},
         jwt |-> NoCred, flag |-> FALSE, res |-> NoRes]

Free(p) == proc[p].pc = "done"

\* a new call takes the first free slot
Slot(p) == Free(p) /\ \A q \in Procs : q < p => ~Free(q)

At(p, op, pc) == proc[p].op = op /\ proc[p].pc = pc

Fail(message, cause) == [NoRes EXCEPT !.status = "error",
                                      !.message = message, !.cause = cause]

\* the call in slot p returns or throws: its locals are dropped
Return(p, res) ==
    [proc EXCEPT ![p] = [Idle EXCEPT !.op = proc[p].op,
                                     !.email = proc[p].email,
                                     !.token = IF proc[p].op = "verify"
                                               THEN proc[p].token ELSE 0,
                                     !.cred = proc[p].cred,
                                     !.flag = proc[p].flag,
                                     !.res = res]]

TheOne(S) == CHOOSE x \in S : TRUE

\* ----------------------------------------- the class and message call slots
\* what a messagesService / classesService call hands back: an Error's
\* message is a sequence of words
NoOut == [status |-> "none", kind |-> "", message |-> <<>>, row |-> {},
          page |-> <<>>, total |-> 0, hasMore |-> FALSE]

NoResponse == [status |-> 0, error |-> "", message |-> <<>>]

IdleCall == [op |-> "idle", pc |-> "done", via |-> "", userId |-> 0,
             classId |-> 0, msgId |-> 0, content |-> <<>>, limit |-> 0,
             offset |-> 0, page |-> <<>>, seen |-> {}, res |-> NoOut,
             http |-> NoResponse, other |-> 0, term |-> "",
             query |-> <<>>, body |-> <<>>]

FreeCall(c) == call[c].pc = "done"

\* a new call takes the first free slot
SlotCall(c) == FreeCall(c) /\ \A d \in Calls : d < c => ~FreeCall(d)

AtCall(c, op, pc) == call[c].op = op /\ call[c].pc = pc

Throw(kind, message) == [NoOut EXCEPT !.status = "error", !.kind = kind,
                                      !.message = message]

\* the Class rows storeClassInDatabase has written: one section of CS 2100 per
\* class id, the second in a later term
TermOf(k) == IF k = 2 THEN "1268" ELSE "1262"

Sections ==
    {[id |-> k, subject |-> "CS", catalogNumber |-> "2100", term |-> TermOf(k),
      sisClassNumber |-> k] : k \in Classes}

\* the state just after start-up, with the User rows `rows`, the UserClass
\* rows `members` and the Friendship rows `friends` in the store
StartWith(rows, members, friends) ==
    /\ clock = 0
    /\ ticks = 0
    /\ users = rows
    /\ magicLinks = {}
    /\ sessions = {}
    /\ seq = [user |-> Cardinality(rows) + 1, link |-> 1, session |-> 1,
              token |-> 1, socket |-> 1, message |-> 1,
              friendship |-> Cardinality(friends) + 1]
    /\ outbox = {}
    /\ proc = [p \in Procs |-> Idle]
    /\ ops = 0
    /\ sockets = {}
    /\ lastConnect = "none"
    /\ hist = [okVerify  |-> [t \in Tokens |-> 0],
               sessionFor |-> {},
               denied    |-> {},
               issued    |-> {},
               loggedOut |-> {}]
    /\ userClasses = members
    /\ classMessages = {}
    /\ call = [c \in Calls |-> IdleCall]
    /\ emitted = {}
    /\ chat = [flagged |-> [m \in MsgIds |-> 0], hits |-> {}]
    /\ friendships = friends
    /\ classes = Sections
    /\ cache = {}
    /\ rooms = {}

\* the same with no Friendship row
Start(rows, members) == StartWith(rows, members, {})

\* an empty store
Init == Start({}, {})

\* accounts that have signed in before the class and message calls start
Name(u) == CASE u = 1 -> "bob" [] u = 2 -> "amy" [] OTHER -> "eve"

Registered == {[id |-> u, email |-> <<Name(u), Domain>>, emailVerified |-> TRUE] :
                  u \in UserIds}

InitChat == Start(Registered, {})

\* the first account has joined two classes
Members == {[userId |-> 1, classId |-> k] : k \in {1, 2}}

InitMember == Start(Registered, Members)

\* d milliseconds pass
Tick(d) ==
    /\ ticks < MaxTicks
    /\ clock + d <= Horizon
    /\ clock' = clock + d
    /\ ticks' = ticks + 1
    /\ UNCHANGED <<chatVars, users, magicLinks, sessions, seq, outbox, proc,
                   ops, sockets, lastConnect, hist>>

\* ------------------------------------------- authService.requestMagicLink
Normalize(email) == Trim(ToLowerCase(email))

\* requests in flight that have not generated their token yet
Pending == Cardinality({q \in Procs : At(q, "request", "createUser")})

\* the slot with new Date(Date.now() + 7 days) as the link's expiry
WithTokenSessionTTL(slot, row, token, now) ==
    [slot EXCEPT !.user = {row}, !.token = token, !.exp = now + SessionTTL,
                 !.pc = "createLink"]

\* the slot once crypto.generateToken(32) and new Date(Date.now() + 15 min)
\* have run for the user row `row`
WithToken(slot, row, token, now) ==
    [slot EXCEPT !.user = {row}, !.token = token, !.exp = now + MagicLinkTTL,
                 !.pc = "createLink"]

\* the call: the domain check, then prisma.user.findUnique({where: {email}})
RequestMagicLink(p, email) ==
    /\ Slot(p)
    /\ ops' = ops + 1
    /\ LET slot  == [Idle EXCEPT !.op = "request", !.email = email]
           found == {u \in users : u.email = Normalize(email)}
       IN IF ~EndsWith(email, Domain)
          THEN /\ proc' = [proc EXCEPT ![p] = [slot EXCEPT !.res =
                      Fail("Only @virginia.edu emails are allowed", "domain")]]
               /\ UNCHANGED seq
          ELSE IF found = {}
          THEN /\ proc' = [proc EXCEPT ![p] = [slot EXCEPT !.pc = "createUser"]]
               /\ UNCHANGED seq
          ELSE /\ proc' = [proc EXCEPT ![p] =
                      WithToken(slot, TheOne(found), seq.token, clock)]
               /\ seq' = [seq EXCEPT !.token = @ + 1]
    /\ UNCHANGED <<chatVars, clock, ticks, users, magicLinks, sessions, outbox,
                   sockets, lastConnect, hist>>

\* prisma.user.create: email is unique
ReqCreateUser(p) ==
    /\ At(p, "request", "createUser")
    /\ LET email == Normalize(proc[p].email)
           row   == [id |-> seq.user, email |-> email, emailVerified |-> FALSE]
       IN IF \E u \in users : u.email = email
          THEN /\ proc' = Return(p, Fail("P2002", "store"))
               /\ UNCHANGED <<users, seq>>
          ELSE /\ users' = users \cup {row}
               /\ seq' = [seq EXCEPT !.user = @ + 1, !.token = @ + 1]
               /\ proc' = [proc EXCEPT ![p] =
                      WithToken(proc[p], row, seq.token, clock)]
    /\ UNCHANGED <<chatVars, clock, ticks, magicLinks, sessions, outbox, ops,
                   sockets, lastConnect, hist>>

\* the token itself, marked as not hashed (not what the code does)
TokenRaw(token) == <<"raw", token>>

\* const tokenHash = crypto.sha256(token)
TokenHash(token) == Sha256(token)

\* prisma.magicLink.create: userId references an existing User
ReqCreateLink(p) ==
    /\ At(p, "request", "createLink")
    /\ LET u == TheOne(proc[p].user)
       IN IF ~\E x \in users : x.id = u.id
          THEN /\ proc' = Return(p, Fail("P2003", "store"))
               /\ UNCHANGED <<magicLinks, seq>>
          ELSE /\ magicLinks' = magicLinks \cup
                      {[id |-> seq.link, userId |-> u.id,
                        tokenHash |-> TokenHash(proc[p].token),
                        expiresAt |-> proc[p].exp, used |-> FALSE]}
               /\ seq' = [seq EXCEPT !.link = @ + 1]
               /\ proc' = [proc EXCEPT ![p].pc = "sendEmail"]
    /\ UNCHANGED <<chatVars, clock, ticks, users, sessions, outbox, ops,
                   sockets, lastConnect, hist>>

\* emailService.sendMagicLink delivers the raw token
ReqSendEmail(p) ==
    /\ At(p, "request", "sendEmail")
    /\ outbox' = outbox \cup {[to |-> Normalize(proc[p].email),
                               token |-> proc[p].token]}
    /\ proc' = Return(p, [NoRes EXCEPT !.status = "ok"])
    /\ UNCHANGED <<chatVars, clock, ticks, users, magicLinks, sessions, seq, ops,
                   sockets, lastConnect, hist>>

\* emailService.sendMagicLink: the provider call throws
ReqSendEmailFails(p) ==
    /\ At(p, "request", "sendEmail")
    /\ proc' = Return(p, Fail("Failed to send magic link email", "email"))
    /\ UNCHANGED <<chatVars, clock, ticks, users, magicLinks, sessions, seq, outbox, ops,
                   sockets, lastConnect, hist>>

\* -------------------------------------------- authService.verifyMagicLink
\* the checks without the expiry test
VerifyCheckNoExpiry(link, now) ==
    IF link = {} THEN Fail("Invalid or expired magic link", "absent")
    ELSE IF TheOne(link).used
         THEN Fail("Magic link has already been used", "used")
    ELSE NoRes

\* the three throws between the read and the first write
VerifyCheck(link, now) ==
    IF link = {} THEN Fail("Invalid or expired magic link", "absent")
    ELSE IF TheOne(link).expiresAt < now
         THEN Fail("Magic link has expired", "expired")
    ELSE IF TheOne(link).used
         THEN Fail("Magic link has already been used", "used")
    ELSE NoRes

\* authController.verifyMagicLink: the response to a service result
VerifyResponse(res) ==
    IF res.status = "ok"
    THEN [status |-> 200, error |-> "", message |-> "",
          emailVerified |-> {u.emailVerified : u \in res.user}]
    ELSE [status |-> 400, error |-> "Invalid Token",
          message |-> IF res.message # "" THEN res.message
                      ELSE "Magic link is invalid or has expired",
          emailVerified |-> {}]

\* the call: prisma.magicLink.findUnique({where: {tokenHash}, include:
\* {user: true}}), then the checks
VerifyMagicLink(p, token) ==
    /\ Slot(p)
    /\ ops' = ops + 1
    /\ LET slot  == [Idle EXCEPT !.op = "verify", !.token = token]
           found == {l \in magicLinks : l.tokenHash = Sha256(token)}
           r     == VerifyCheck(found, clock)
       IN IF r.status = "error"
          THEN /\ proc' = [proc EXCEPT ![p] = [slot EXCEPT !.res = r]]
               /\ hist' = [hist EXCEPT !.denied = @ \cup {VerifyResponse(r)}]
          ELSE /\ proc' = [proc EXCEPT ![p] = [slot EXCEPT
                      !.link = found,
                      !.user = {u \in users : \E l \in found : u.id = l.userId},
                      !.pc = "markUsed"]]
               /\ UNCHANGED hist
    /\ UNCHANGED <<chatVars, clock, ticks, users, magicLinks, sessions, seq, outbox,
                   sockets, lastConnect>>

\* prisma.magicLink.update({where: {id}, data: {used: true}})
VerifyMarkUsed(p) ==
    /\ At(p, "verify", "markUsed")
    /\ LET id == TheOne(proc[p].link).id
       IN IF ~\E l \in magicLinks : l.id = id
          THEN /\ proc' = Return(p, Fail("P2025", "store"))
               /\ UNCHANGED magicLinks
          ELSE /\ magicLinks' = {IF l.id = id THEN [l EXCEPT !.used = TRUE]
                                 ELSE l : l \in magicLinks}
               /\ proc' = [proc EXCEPT ![p].pc = "updateUser"]
    /\ UNCHANGED <<chatVars, clock, ticks, users, sessions, seq, outbox, ops,
                   sockets, lastConnect, hist>>

\* prisma.user.update({where: {id}, data: {emailVerified: true}}), then
\* jwtUtils.sign({userId, email}) and new Date(Date.now() + 7 days)
VerifyUpdateUser(p) ==
    /\ At(p, "verify", "updateUser")
    /\ LET id == TheOne(proc[p].link).userId
           u  == TheOne(proc[p].user)
       IN IF ~\E x \in users : x.id = id
          THEN /\ proc' = Return(p, Fail("P2025", "store"))
               /\ UNCHANGED users
          ELSE /\ users' = {IF x.id = id THEN [x EXCEPT !.emailVerified = TRUE]
                            ELSE x : x \in users}
               /\ proc' = [proc EXCEPT ![p].jwt = JwtSign(u.id, u.email, clock),
                                       ![p].exp = clock + SessionTTL,
                                       ![p].pc = "createSession"]
    /\ UNCHANGED <<chatVars, clock, ticks, magicLinks, sessions, seq, outbox, ops,
                   sockets, lastConnect, hist>>

\* the value verifyMagicLink returns: magicLink.user as it was read
VerifyResult(user, jwt) ==
    [NoRes EXCEPT !.status = "ok", !.user = user, !.jwt = jwt]

\* prisma.session.create: tokenHash is unique, userId references a User
VerifyCreateSession(p) ==
    /\ At(p, "verify", "createSession")
    /\ LET u    == TheOne(proc[p].user)
           hash == Sha256(proc[p].jwt)
       IN IF \E s \in sessions : s.tokenHash = hash
          THEN /\ proc' = Return(p, Fail("P2002", "store"))
               /\ UNCHANGED <<sessions, seq, hist>>
          ELSE IF ~\E x \in users : x.id = u.id
          THEN /\ proc' = Return(p, Fail("P2003", "store"))
               /\ UNCHANGED <<sessions, seq, hist>>
          ELSE /\ sessions' = sessions \cup
                      {[id |-> seq.session, userId |-> u.id, tokenHash |-> hash,
                        expiresAt |-> proc[p].exp, lastUsedAt |-> clock]}
               /\ seq' = [seq EXCEPT !.session = @ + 1]
               /\ proc' = Return(p, VerifyResult(proc[p].user, proc[p].jwt))
               /\ hist' = [hist EXCEPT
                      !.okVerify[proc[p].token] = @ + 1,
                      !.sessionFor = @ \cup {TheOne(proc[p].link).id},
                      !.issued = @ \cup {proc[p].jwt}]
    /\ UNCHANGED <<chatVars, clock, ticks, users, magicLinks, outbox, ops,
                   sockets, lastConnect>>

\* ---------------------------------------------- authService.validateToken
\* if (!session || session.expiresAt < new Date()) throw 'Session expired'
SessionLive(sess, now) == sess # {} /\ ~(TheOne(sess).expiresAt < now)

\* what the catch block throws in place of every error of the try block
ValidateError(inner) == Fail("Invalid token", inner)

\* the call: jwtUtils.verify, prisma.session.findUnique({where:
\* {tokenHash}}), then the liveness check
ValidateToken(p, cred) ==
    /\ Slot(p)
    /\ ops' = ops + 1
    /\ LET slot  == [Idle EXCEPT !.op = "validate", !.cred = cred,
                                 !.flag = cred \in hist.loggedOut]
           found == {s \in sessions : s.tokenHash = Sha256(cred)}
       IN proc' = [proc EXCEPT ![p] =
              IF ~JwtVerifyOk(cred, clock)
              THEN [slot EXCEPT !.res = ValidateError("jwt")]
              ELSE IF ~SessionLive(found, clock)
              THEN [slot EXCEPT !.res = ValidateError("Session expired")]
              ELSE [slot EXCEPT !.sess = found, !.exp = clock, !.pc = "touch"]]
    /\ UNCHANGED <<chatVars, clock, ticks, users, magicLinks, sessions, seq, outbox,
                   sockets, lastConnect, hist>>

\* prisma.session.update({where: {id}, data: {lastUsedAt}}); return decoded
ValidateTouch(p) ==
    /\ At(p, "validate", "touch")
    /\ LET id == TheOne(proc[p].sess).id
       IN IF ~\E s \in sessions : s.id = id
          THEN /\ proc' = Return(p, ValidateError("P2025"))
               /\ UNCHANGED sessions
          ELSE /\ sessions' = {IF s.id = id
                               THEN [s EXCEPT !.lastUsedAt = proc[p].exp]
                               ELSE s : s \in sessions}
               /\ proc' = Return(p, [NoRes EXCEPT !.status = "ok",
                                                  !.jwt = proc[p].cred])
    /\ UNCHANGED <<chatVars, clock, ticks, users, magicLinks, seq, outbox, ops,
                   sockets, lastConnect, hist>>

\* ----------------------------------------------------- authService.logout
\* prisma.session.delete without the .catch(): a missing row rejects
LogoutNoCatch(rows, cred) ==
    [rows |-> {s \in rows : s.tokenHash # Sha256(cred)},
     status |-> IF \E s \in rows : s.tokenHash = Sha256(cred)
                THEN "ok" ELSE "error"]

\* prisma.session.delete({where: {tokenHash}}).catch(() => {}): the rows
\* left and how the call ends; a missing row rejects and the catch swallows it
LogoutOutcome(rows, cred) ==
    [rows |-> {s \in rows : s.tokenHash # Sha256(cred)}, status |-> "ok"]

Logout(p, cred) ==
    /\ Slot(p)
    /\ ops' = ops + 1
    /\ LET out == LogoutOutcome(sessions, cred)
       IN /\ sessions' = out.rows
          /\ proc' = [proc EXCEPT ![p] =
                 [Idle EXCEPT !.op = "logout", !.cred = cred,
                              !.flag = cred \in hist.loggedOut,
                              !.res = [NoRes EXCEPT !.status = out.status]]]
    /\ hist' = [hist EXCEPT !.loggedOut = @ \cup {cred}]
    /\ UNCHANGED <<chatVars, clock, ticks, users, magicLinks, seq, outbox,
                   sockets, lastConnect>>

\* ------------------------------------------------ userService.deleteAccount
\* onDelete: Cascade along parentMessage: the rows left once the rows with an
\* id in `gone` are deleted together with all their replies
RECURSIVE CascadeReplies(_, _)
CascadeReplies(rows, gone) ==
    LET more == {m.id : m \in {r \in rows : r.parentMessageId \in gone}} \ gone
    IN IF more = {} THEN {r \in rows : r.id \notin gone}
       ELSE CascadeReplies(rows, gone \cup more)

\* prisma.user.delete with no cascade to the Session rows (not what the schema
\* declares)
DeleteAccountKeepSessions(id) ==
    /\ ops' = ops + 1
    /\ \E u \in users : u.id = id
    /\ users' = {u \in users : u.id # id}
    /\ magicLinks' = {l \in magicLinks : l.userId # id}
    /\ userClasses' = {e \in userClasses : e.userId # id}
    /\ classMessages' = CascadeReplies(classMessages,
                             {m.id : m \in {r \in classMessages : r.userId = id}})
    /\ friendships' = {f \in friendships : f.userId1 # id /\ f.userId2 # id}
    /\ UNCHANGED <<sessions, classes, cache, rooms, call, emitted, chat, clock,
                   ticks, seq, outbox, proc, sockets, lastConnect, hist>>

\* prisma.user.delete: MagicLink, Session, UserClass, ClassMessage and
\* Friendship rows cascade
DeleteAccount(id) ==
    /\ ops' = ops + 1
    /\ \E u \in users : u.id = id
    /\ users' = {u \in users : u.id # id}
    /\ magicLinks' = {l \in magicLinks : l.userId # id}
    /\ sessions' = {s \in sessions : s.userId # id}
    /\ userClasses' = {e \in userClasses : e.userId # id}
    /\ classMessages' = CascadeReplies(classMessages,
                             {m.id : m \in {r \in classMessages : r.userId = id}})
    /\ friendships' = {f \in friendships : f.userId1 # id /\ f.userId2 # id}
    /\ UNCHANGED <<classes, cache, rooms, call, emitted, chat, clock, ticks,
                   seq, outbox, proc, sockets, lastConnect, hist>>

\* ------------------------------------------- socket/index.ts: io.use(...)
\* the handshake: jwtUtils.verify alone decides
SocketAuth(token, now) ==
    IF token = NoCred THEN FALSE ELSE JwtVerifyOk(token, now)

SocketConnect(token) ==
    /\ ops' = ops + 1
    /\ IF SocketAuth(token, clock)
       THEN /\ sockets' = sockets \cup {[id |-> seq.socket, token |-> token,
                                         userId |-> token.userId,
                                         email |-> token.email]}
            /\ seq' = [seq EXCEPT !.socket = @ + 1]
            /\ lastConnect' = "connected"
       ELSE /\ lastConnect' = "Authentication error"
            /\ UNCHANGED <<sockets, seq>>
    /\ UNCHANGED <<chatVars, clock, ticks, users, magicLinks, sessions, outbox, proc, hist>>

\* ------------------------------------------------------ text and errors
\* an Error message is a sequence of words; String.includes looks for a
\* run of consecutive words
Includes(s, sub) ==
    \E i \in 0..(Len(s) - Len(sub)) : SubSeq(s, i + 1, i + Len(sub)) = sub

NotEnrolledToPost == <<"You", "must", "be", "enrolled", "in", "this", "class",
                       "to", "post", "messages">>

ContentError == <<"Message", "content", "must", "be", "between", "1", "and",
                  "1000", "characters">>

MessageNotFound == <<"Message", "not", "found">>

AlreadyEnrolled == <<"Already", "enrolled", "in", "this", "class">>

\* message content is a sequence of pieces; a piece stands for that many
\* characters
Width(c) == CASE c = "hi" -> 2
              [] c = "&lt;" -> 4
              [] c = "&gt;" -> 4
              [] c = "x997" -> 997
              [] OTHER -> 1

RECURSIVE Length(_)
Length(s) == IF s = <<>> THEN 0 ELSE Width(Head(s)) + Length(Tail(s))

\* content.replace(/</g, '&lt;').replace(/>/g, '&gt;').trim()
Escape(c) == CASE c = "<" -> "&lt;" [] c = ">" -> "&gt;" [] OTHER -> c

Sanitize(content) == Trim([i \in 1..Len(content) |-> Escape(content[i])])

MaxContent == 1000

\* ------------------------------------- what a caller is shown of a message
\* the message with its owner in it (not what the code does)
MessageViewWithOwner(entry, userId) ==
    [id |-> entry.row.id, userId |-> entry.row.userId,
     anonymousIdentifier |-> entry.row.anonymousIdentifier,
     content |-> entry.row.content, createdAt |-> entry.row.createdAt,
     replyCount |-> entry.replyCount,
     isOwnMessage |-> entry.row.userId = userId]

\* messagesController.getClassMessages: result.messages.map(...)
MessageView(entry, userId) ==
    [id |-> entry.row.id,
     anonymousIdentifier |-> entry.row.anonymousIdentifier,
     content |-> entry.row.content, createdAt |-> entry.row.createdAt,
     replyCount |-> entry.replyCount,
     isOwnMessage |-> entry.row.userId = userId]

\* the message of a 201 response and of a new-message event
NewMessage(row) ==
    [id |-> row.id, anonymousIdentifier |-> row.anonymousIdentifier,
     content |-> row.content, createdAt |-> row.createdAt, replyCount |-> 0]

\* the messages in the body of a response of the message routes; the bodies of
\* the other routes are left out
Body(slot, out) ==
    IF slot.via # "http" \/ out.status # "ok" THEN <<>>
    ELSE CASE slot.op = "list" ->
                  [i \in DOMAIN out.page |-> MessageView(out.page[i], slot.userId)]
           [] slot.op = "post" -> <<NewMessage(TheOne(out.row))>>
           [] OTHER -> <<>>

\* ------------------------------------------------ how a call settles
\* the slot once the handler of the call has finished with `out`; on the HTTP
\* path `response` is what the controller sends
Settle(slot, out, response) ==
    [IdleCall EXCEPT !.op = slot.op, !.via = slot.via, !.userId = slot.userId,
                     !.classId = slot.classId, !.msgId = slot.msgId,
                     !.limit = slot.limit, !.offset = slot.offset,
                     !.other = slot.other, !.term = slot.term,
                     !.query = slot.query, !.res = out,
                     !.body = Body(slot, out),
                     !.http = IF slot.via = "http" THEN response ELSE NoResponse]

\* ------------------------------------ classesService: the UserClass rows
\* prisma.userClass.findUnique({where: {userId_classId: {userId, classId}}})
\* with every row of the class in place of the row of this user
EnrollmentAnyUser(rows, userId, classId) == {e \in rows : e.classId = classId}

\* prisma.userClass.findUnique({where: {userId_classId: {userId, classId}}})
Enrollment(rows, userId, classId) ==
    {e \in rows : e.userId = userId /\ e.classId = classId}

\* addClassToUser once the class row is known: the already-enrolled check
AddClassToUser(c, userId, classId) ==
    /\ SlotCall(c)
    /\ ops' = ops + 1
    /\ LET slot == [IdleCall EXCEPT !.op = "enroll", !.via = "http",
                                    !.userId = userId, !.classId = classId]
       IN call' = [call EXCEPT ![c] =
              IF Enrollment(userClasses, userId, classId) # {}
              THEN Settle(slot, Throw("Error", AlreadyEnrolled), NoResponse)
              ELSE [slot EXCEPT !.pc = "create"]]
    /\ UNCHANGED <<friendships, classes, cache, rooms, userClasses,
                   classMessages, emitted, chat, clock, ticks, users,
                   magicLinks, sessions, seq, outbox, proc, sockets,
                   lastConnect, hist>>

\* prisma.userClass.create: (userId, classId) is the key, userId references
\* a User
EnrollCreate(c) ==
    /\ AtCall(c, "enroll", "create")
    /\ LET slot == call[c]
           row  == [userId |-> slot.userId, classId |-> slot.classId]
       IN IF row \in userClasses
          THEN /\ call' = [call EXCEPT ![c] =
                      Settle(slot, Throw("Prisma", <<"P2002">>), NoResponse)]
               /\ UNCHANGED userClasses
          ELSE IF ~\E u \in users : u.id = slot.userId
          THEN /\ call' = [call EXCEPT ![c] =
                      Settle(slot, Throw("Prisma", <<"P2003">>), NoResponse)]
               /\ UNCHANGED userClasses
          ELSE /\ userClasses' = userClasses \cup {row}
               /\ call' = [call EXCEPT ![c].pc = "del"]
    /\ UNCHANGED <<friendships, classes, cache, rooms, classMessages,
                   emitted, chat, clock, ticks, ops, users, magicLinks,
                   sessions, seq, outbox, proc, sockets, lastConnect, hist>>

\* removeClassFromUser up to its cache invalidation: prisma.userClass.delete
RemoveClassFromUser(c, userId, classId) ==
    /\ SlotCall(c)
    /\ ops' = ops + 1
    /\ LET slot == [IdleCall EXCEPT !.op = "drop", !.via = "http",
                                    !.userId = userId, !.classId = classId]
           row  == [userId |-> userId, classId |-> classId]
       IN IF row \in userClasses
          THEN /\ userClasses' = userClasses \ {row}
               /\ call' = [call EXCEPT ![c] = [slot EXCEPT !.pc = "del"]]
          ELSE /\ call' = [call EXCEPT ![c] =
                      Settle(slot, Throw("Prisma", <<"P2025">>), NoResponse)]
               /\ UNCHANGED userClasses
    /\ UNCHANGED <<friendships, classes, cache, rooms, classMessages,
                   emitted, chat, clock, ticks, users, magicLinks, sessions,
                   seq, outbox, proc, sockets, lastConnect, hist>>

\* ---------------------------------------- messagesService.createMessage
\* an identifier drawn afresh for every message (not what the code does)
GenerateAnonymousIdPerMessage(userId, classId) ==
    <<"Anon", Sha256(<<userId, classId, seq.message>>)>>

\* crypto.generateAnonymousId(userId, classId)
GenerateAnonymousId(userId, classId) == <<"Anon", Sha256(<<userId, classId>>)>>

\* createMessageSchema: content is a string of 1 to 1000 characters
CreateMessageSchema(content) == Length(content) >= 1 /\ Length(content) <= MaxContent

\* messagesController.createMessage: the response to a service result
CreateMessageResponse(out) ==
    IF out.status = "ok"
    THEN [status |-> 201, error |-> "", message |-> <<>>]
    ELSE IF out.kind = "ZodError"
    THEN [status |-> 400, error |-> "Validation Error", message |-> out.message]
    ELSE IF Includes(out.message, <<"not", "enrolled">>)
    THEN [status |-> 403, error |-> "Forbidden", message |-> out.message]
    ELSE [status |-> 500, error |-> "Internal Server Error",
          message |-> <<"Failed", "to", "create", "message">>]

\* a socket event: `to` is the socket of that user, `room` the class room of
\* a broadcast, `message` the words of an error or the message of a broadcast,
\* `recipients` the users whose sockets it went to, `order` the position of a
\* broadcast among the broadcasts
Event(event, room, to, msgId, message, recipients, order) ==
    [event |-> event, room |-> room, to |-> to, msgId |-> msgId,
     message |-> message, recipients |-> recipients, order |-> order]

\* the sockets in the room of a class, by user
InRoom(classId) == {r.userId : r \in {x \in rooms : x.classId = classId}}

Broadcasts == {e \in emitted : e.event = "new-message"}

\* socket.on('send-message'): what is emitted once createMessage has settled,
\* the broadcast to the class room or the error to the sender
SendMessageEvents(slot, out) ==
    IF slot.via # "socket" THEN {}
    ELSE IF out.status = "ok"
    THEN {Event("new-message", slot.classId, 0, TheOne(out.row).id,
                <<NewMessage(TheOne(out.row))>>, InRoom(slot.classId),
                Cardinality(Broadcasts) + 1)}
    ELSE {Event("error", 0, slot.userId, 0,
                IF out.message # <<>> THEN out.message
                ELSE <<"Failed", "to", "send", "message">>,
                {slot.userId}, 0)}

\* the checks of createMessage between the enrollment read and the insert
CreateCheck(rows, userId, classId, content) ==
    IF Enrollment(rows, userId, classId) = {}
    THEN Throw("Error", NotEnrolledToPost)
    ELSE IF Length(Sanitize(content)) = 0 \/ Length(Sanitize(content)) > MaxContent
    THEN Throw("Error", ContentError)
    ELSE NoOut

\* the call, over HTTP (schema first) or from a socket: prisma.userClass
\* .findUnique, then the checks
CreateMessageHandler(c, via, userId, classId, content, parentMessageId) ==
    /\ SlotCall(c)
    /\ ops' = ops + 1
    /\ LET slot == [IdleCall EXCEPT !.op = "post", !.via = via,
                                    !.userId = userId, !.classId = classId,
                                    !.msgId = parentMessageId]
           out  == IF via = "http" /\ ~CreateMessageSchema(content)
                   THEN Throw("ZodError", <<"Invalid", "content">>)
                   ELSE CreateCheck(userClasses, userId, classId, content)
       IN IF out.status = "error"
          THEN /\ call' = [call EXCEPT ![c] =
                      Settle(slot, out, CreateMessageResponse(out))]
               /\ emitted' = emitted \cup SendMessageEvents(slot, out)
          ELSE /\ call' = [call EXCEPT ![c] =
                      [slot EXCEPT !.content = Sanitize(content), !.pc = "create"]]
               /\ UNCHANGED emitted
    /\ UNCHANGED <<friendships, classes, cache, rooms, userClasses,
                   classMessages, clock, ticks, users, magicLinks, sessions,
                   seq, outbox, proc, sockets, lastConnect, hist>>

\* the call when no limiter counts it: from a socket, or over HTTP in a run
\* too short for messageLimiter to refuse
CreateMessage(c, via, userId, classId, content, parentMessageId) ==
    /\ CreateMessageHandler(c, via, userId, classId, content, parentMessageId)
    /\ UNCHANGED chat

\* ------------------------------------------- middleware: messageLimiter
\* windowMs and max of messageLimiter
MessageWindow == 60 * 60 * 1000
MessageMax == 30

\* keyGenerator: `${req.user?.userId}:${req.params.classId}`
LimiterKey(userId, classId) == <<userId, classId>>

TooManyMessages ==
    [status |-> 429, error |-> "Too Many Requests",
     message |-> <<"Too", "many", "messages.", "Please", "slow", "down.">>]

\* the counter of a key whose window is still open
OpenWindow(entries, key, now) ==
    {e \in entries : e.key = key /\ now < e.resetTime}

\* the store of the limiter once a request with the key has been counted
Increment(entries, key, now) ==
    LET open == OpenWindow(entries, key, now)
    IN {e \in entries : e.key # key} \cup
       { IF open = {}
         THEN [key |-> key, hits |-> 1, resetTime |-> now + MessageWindow]
         ELSE [TheOne(open) EXCEPT !.hits = @ + 1] }

\* requests counted for the key in its open window
Hits(entries, key, now) ==
    LET open == OpenWindow(entries, key, now)
    IN IF open = {} THEN 0 ELSE TheOne(open).hits

\* a request is refused once its key has been counted more than max times
OverLimit(hits) == hits > MessageMax

\* POST /:classId/messages: authMiddleware, messageLimiter, then the
\* controller
PostMessage(c, userId, classId, content, parentMessageId) ==
    LET key     == LimiterKey(userId, classId)
        entries == Increment(chat.hits, key, clock)
    IN /\ chat' = [chat EXCEPT !.hits = entries]
       /\ IF OverLimit(Hits(entries, key, clock))
          THEN /\ SlotCall(c)
               /\ ops' = ops + 1
               /\ call' = [call EXCEPT ![c] =
                      [IdleCall EXCEPT !.op = "post", !.via = "http",
                                       !.userId = userId, !.classId = classId,
                                       !.msgId = parentMessageId,
                                       !.res = Throw("Limiter", <<>>),
                                       !.http = TooManyMessages]]
               /\ UNCHANGED <<friendships, classes, cache, rooms, userClasses,
                              classMessages, emitted, clock, ticks, users,
                              magicLinks, sessions, seq, outbox, proc, sockets,
                              lastConnect, hist>>
          ELSE CreateMessageHandler(c, "http", userId, classId, content,
                                    parentMessageId)


\* prisma.classMessage.create: userId references a User, parentMessageId a
\* ClassMessage; then the response of the controller, or the error to the
\* socket; the send-message handler of a stored message resumes in a step of
\* its own
MessageCreate(c) ==
    /\ AtCall(c, "post", "create")
    /\ LET slot == call[c]
           row  == [id |-> seq.message, classId |-> slot.classId,
                    userId |-> slot.userId,
                    anonymousIdentifier |->
                        GenerateAnonymousId(slot.userId, slot.classId),
                    content |-> slot.content, parentMessageId |-> slot.msgId,
                    createdAt |-> clock, flaggedCount |-> 0, hidden |-> FALSE]
           out  == IF \/ ~\E u \in users : u.id = slot.userId
                      \/ /\ slot.msgId # 0
                         /\ ~\E m \in classMessages : m.id = slot.msgId
                   THEN Throw("Prisma", <<"P2003">>)
                   ELSE [NoOut EXCEPT !.status = "ok", !.row = {row}]
       IN /\ IF out.status = "ok" /\ slot.via = "socket"
             THEN /\ call' = [call EXCEPT ![c].pc = "emit", ![c].res = out]
                  /\ UNCHANGED emitted
             ELSE /\ call' = [call EXCEPT ![c] =
                        Settle(slot, out, CreateMessageResponse(out))]
                  /\ emitted' = emitted \cup SendMessageEvents(slot, out)
          /\ IF out.status = "ok"
             THEN /\ classMessages' = classMessages \cup {row}
                  /\ seq' = [seq EXCEPT !.message = @ + 1]
             ELSE UNCHANGED <<classMessages, seq>>
    /\ UNCHANGED <<friendships, classes, cache, rooms, userClasses, chat,
                   clock, ticks, ops, users, magicLinks, sessions, outbox,
                   proc, sockets, lastConnect, hist>>

\* socket.on('send-message') resumes after createMessage:
\* io.to(classId).emit('new-message', ...)
SendMessageEmit(c) ==
    /\ AtCall(c, "post", "emit")
    /\ LET slot == call[c]
       IN /\ emitted' = emitted \cup SendMessageEvents(slot, slot.res)
          /\ call' = [call EXCEPT ![c] =
                 Settle(slot, slot.res, CreateMessageResponse(slot.res))]
    /\ UNCHANGED <<userClasses, classMessages, chat, friendships, classes,
                   cache, rooms, clock, ticks, ops, users, magicLinks,
                   sessions, seq, outbox, proc, sockets, lastConnect, hist>>

\* -------------------------------------------- socket/index.ts: the rooms
MustBeEnrolled == <<"You", "must", "be", "enrolled", "in", "this", "class">>

\* messagesService.isUserEnrolledInClass
IsUserEnrolledInClass(rows, userId, classId) ==
    Enrollment(rows, userId, classId) # {}

\* socket.on('join-class') of a socket of the user
JoinClass(userId, classId) ==
    /\ ops' = ops + 1
    /\ IF IsUserEnrolledInClass(userClasses, userId, classId)
       THEN /\ rooms' = rooms \cup {[userId |-> userId, classId |-> classId]}
            /\ emitted' = emitted \cup
                   {Event("joined-class", classId, userId, 0, <<>>, {userId}, 0)}
       ELSE /\ emitted' = emitted \cup
                   {Event("error", 0, userId, 0, MustBeEnrolled, {userId}, 0)}
            /\ UNCHANGED rooms
    /\ UNCHANGED <<userClasses, classMessages, call, chat, friendships,
                   classes, cache, clock, ticks, users, magicLinks, sessions,
                   seq, outbox, proc, sockets, lastConnect, hist>>

\* socket.on('leave-class') of a socket of the user
LeaveClass(userId, classId) ==
    /\ ops' = ops + 1
    /\ rooms' = rooms \ {[userId |-> userId, classId |-> classId]}
    /\ UNCHANGED <<userClasses, classMessages, call, emitted, chat,
                   friendships, classes, cache, clock, ticks, users,
                   magicLinks, sessions, seq, outbox, proc, sockets,
                   lastConnect, hist>>

\* ------------------------------------------ messagesService.flagMessage
HideAt == 5

\* data: {flaggedCount: message.flaggedCount + 1}, from the row as it was read
FlagUpdateFromRead(row, read) ==
    [row EXCEPT !.flaggedCount = read.flaggedCount + 1]

\* the row written back whole, as it was read, with the new count
FlagUpdateWhole(row, read) ==
    [read EXCEPT !.flaggedCount = row.flaggedCount + 1]

\* data: {flaggedCount: {increment: 1}}: the store adds one to the row as it
\* is now; `read` is the row findUnique returned
FlagUpdate(row, read) == [row EXCEPT !.flaggedCount = @ + 1]

\* if (updated.flaggedCount > 5)
ShouldHideAbove(updated) == updated.flaggedCount > HideAt

\* if (updated.flaggedCount >= 5)
ShouldHide(updated) == updated.flaggedCount >= HideAt

\* messagesController.flagMessage: the response to a service result
FlagResponse(out) ==
    IF out.status = "ok"
    THEN [status |-> 200, error |-> "",
          message |-> <<"Message", "flagged", "for", "review">>]
    ELSE IF out.message = MessageNotFound
    THEN [status |-> 404, error |-> "Not Found", message |-> out.message]
    ELSE [status |-> 500, error |-> "Internal Server Error",
          message |-> <<"Failed", "to", "flag", "message">>]

\* the call: prisma.classMessage.findUnique({where: {id}})
FlagMessage(c, messageId, userId) ==
    /\ SlotCall(c)
    /\ ops' = ops + 1
    /\ LET slot  == [IdleCall EXCEPT !.op = "flag", !.via = "http",
                                     !.userId = userId, !.msgId = messageId]
           found == {m \in classMessages : m.id = messageId}
           out   == Throw("Error", MessageNotFound)
       IN call' = [call EXCEPT ![c] =
              IF found = {} THEN Settle(slot, out, FlagResponse(out))
              ELSE [slot EXCEPT !.seen = found, !.pc = "increment"]]
    /\ UNCHANGED <<friendships, classes, cache, rooms, userClasses,
                   classMessages, emitted, chat, clock, ticks, users,
                   magicLinks, sessions, seq, outbox, proc, sockets,
                   lastConnect, hist>>

\* prisma.classMessage.update({data: {flaggedCount: {increment: 1}}}), then
\* the threshold test; below the threshold the call returns `updated`
FlagIncrement(c) ==
    /\ AtCall(c, "flag", "increment")
    /\ LET slot == call[c]
           now  == {m \in classMessages : m.id = slot.msgId}
           fail == Throw("Prisma", <<"P2025">>)
       IN IF now = {}
          THEN /\ call' = [call EXCEPT ![c] = Settle(slot, fail, FlagResponse(fail))]
               /\ UNCHANGED <<classMessages, chat>>
          ELSE LET updated == FlagUpdate(TheOne(now), TheOne(slot.seen))
                   out     == [NoOut EXCEPT !.status = "ok", !.row = {updated}]
               IN /\ classMessages' = (classMessages \ now) \cup {updated}
                  /\ IF ShouldHide(updated)
                     THEN /\ call' = [call EXCEPT ![c] =
                                 [slot EXCEPT !.seen = {updated}, !.pc = "hide"]]
                          /\ UNCHANGED chat
                     ELSE /\ call' = [call EXCEPT ![c] =
                                 Settle(slot, out, FlagResponse(out))]
                          /\ chat' = [chat EXCEPT !.flagged[slot.msgId] = @ + 1]
    /\ UNCHANGED <<friendships, classes, cache, rooms, userClasses, emitted,
                   clock, ticks, ops, users, magicLinks, sessions, seq,
                   outbox, proc, sockets, lastConnect, hist>>

\* prisma.classMessage.update({data: {hidden: true}}); return updated
FlagHide(c) ==
    /\ AtCall(c, "flag", "hide")
    /\ LET slot == call[c]
           now  == {m \in classMessages : m.id = slot.msgId}
           fail == Throw("Prisma", <<"P2025">>)
           out  == [NoOut EXCEPT !.status = "ok", !.row = slot.seen]
       IN IF now = {}
          THEN /\ call' = [call EXCEPT ![c] = Settle(slot, fail, FlagResponse(fail))]
               /\ UNCHANGED <<classMessages, chat>>
          ELSE /\ classMessages' = (classMessages \ now) \cup
                      {[TheOne(now) EXCEPT !.hidden = TRUE]}
               /\ call' = [call EXCEPT ![c] = Settle(slot, out, FlagResponse(out))]
               /\ chat' = [chat EXCEPT !.flagged[slot.msgId] = @ + 1]
    /\ UNCHANGED <<friendships, classes, cache, rooms, userClasses, emitted,
                   clock, ticks, ops, users, magicLinks, sessions, seq,
                   outbox, proc, sockets, lastConnect, hist>>

\* ------------------------------------- messagesService.getClassMessages
RepliesTake == 5

DefaultLimit == 50

\* parseInt(req.query.x) || fallback: a missing, unparsable or zero
\* parameter (0 here) gives the fallback
ParseOr(q, fallback) == IF q = 0 THEN fallback ELSE q

Min(a, b) == IF a < b THEN a ELSE b

\* where: {classId}, without the hidden filter
AnyOf(rows, classId) == {m \in rows : m.classId = classId}

\* where: {classId, hidden: false}
Visible(rows, classId) == {m \in rows : m.classId = classId /\ ~m.hidden}

\* orderBy: {createdAt: 'desc'}, skip, take: the pages the store may return,
\* rows of equal createdAt in any order
RECURSIVE NewestFirst(_, _, _)
NewestFirst(S, skip, take) ==
    IF S = {} \/ take = 0 THEN {<<>>}
    ELSE UNION {IF skip > 0 THEN NewestFirst(S \ {m}, skip - 1, take)
                ELSE {<<m>> \o t : t \in NewestFirst(S \ {m}, 0, take - 1)} :
                   m \in {x \in S : \A y \in S : x.createdAt >= y.createdAt}}

\* include: {replies: {where: {hidden: false}, take: 5}}, and the length the
\* controller reports as replyCount
ReplyCount(rows, id) ==
    Min(RepliesTake,
        Cardinality({r \in rows : r.parentMessageId = id /\ ~r.hidden}))

\* hasMore: offset + messages.length <= total
HasMoreOrEqual(offset, returned, total) == offset + returned <= total

\* hasMore: offset + messages.length < total
HasMore(offset, returned, total) == offset + returned < total

\* messagesController.getClassMessages: the query parameters, then
\* messagesService.isUserEnrolledInClass
GetClassMessages(c, userId, classId, limit, offset) ==
    /\ SlotCall(c)
    /\ ops' = ops + 1
    /\ LET slot == [IdleCall EXCEPT !.op = "list", !.via = "http",
                                    !.userId = userId, !.classId = classId,
                                    !.limit = ParseOr(limit, DefaultLimit),
                                    !.offset = ParseOr(offset, 0)]
           out  == Throw("Error", <<"You", "must", "be", "enrolled", "in",
                                    "this", "class", "to", "view", "messages">>)
       IN call' = [call EXCEPT ![c] =
              IF Enrollment(userClasses, userId, classId) = {}
              THEN Settle(slot, out, [status |-> 403, error |-> "Forbidden",
                                      message |-> out.message])
              ELSE [slot EXCEPT !.pc = "findMany"]]
    /\ UNCHANGED <<friendships, classes, cache, rooms, userClasses,
                   classMessages, emitted, chat, clock, ticks, users,
                   magicLinks, sessions, seq, outbox, proc, sockets,
                   lastConnect, hist>>

\* prisma.classMessage.findMany: the page, each row with its replies
ListFindMany(c) ==
    /\ AtCall(c, "list", "findMany")
    /\ \E rows \in NewestFirst(Visible(classMessages, call[c].classId),
                                call[c].offset, call[c].limit) :
             call' = [call EXCEPT
                 ![c].page = [i \in 1..Len(rows) |->
                                 [row |-> rows[i],
                                  replyCount |->
                                      ReplyCount(classMessages, rows[i].id)]],
                 ![c].seen = classMessages,
                 ![c].pc = "count"]
    /\ UNCHANGED <<friendships, classes, cache, rooms, userClasses,
                   classMessages, emitted, chat, clock, ticks, ops, users,
                   magicLinks, sessions, seq, outbox, proc, sockets,
                   lastConnect, hist>>

\* prisma.classMessage.count, then the result and the 200 response
ListCount(c) ==
    /\ AtCall(c, "list", "count")
    /\ LET slot  == call[c]
           total == Cardinality(Visible(classMessages, slot.classId))
           out   == [NoOut EXCEPT
                        !.status = "ok", !.page = slot.page, !.total = total,
                        !.hasMore = HasMore(slot.offset, Len(slot.page), total)]
       IN call' = [call EXCEPT ![c] =
              Settle(slot, out, [status |-> 200, error |-> "", message |-> <<>>])]
    /\ UNCHANGED <<friendships, classes, cache, rooms, userClasses,
                   classMessages, emitted, chat, clock, ticks, ops, users,
                   magicLinks, sessions, seq, outbox, proc, sockets,
                   lastConnect, hist>>

\* ------------------------------------------------------ lib/redis.ts
\* the state of the redis server is its entries, and the marker Down from the
\* moment it stops answering: every command of the client then rejects, and
\* the wrappers of lib/redis.ts catch the error
Down == [key |-> <<"down">>, value |-> {}, expires |-> 0]

Unreachable(entries) == Down \in entries

\* the redis server stops answering
RedisFails ==
    /\ ~Unreachable(cache)
    /\ cache' = cache \cup {Down}
    /\ UNCHANGED <<userClasses, classMessages, call, emitted, chat,
                   friendships, classes, rooms, clock, ticks, ops, users,
                   magicLinks, sessions, seq, outbox, proc, sockets,
                   lastConnect, hist>>

\* a get that still answers from the entries while the server is unreachable
\* (not what can happen)
CacheGetThrough(entries, key, now) ==
    {e.value : e \in {x \in entries : x.key = key /\ now < x.expires}}

\* redis.get(key): the value under the key, if an entry is there and its ttl
\* has not run out; null when the command rejects
CacheGet(entries, key, now) ==
    IF Unreachable(entries) THEN {}
    ELSE {e.value : e \in {x \in entries : x.key = key /\ now < x.expires}}

\* redis.set(key, value, ttl): setEx replaces the entry
CacheSet(entries, key, value, ttl, now) ==
    IF Unreachable(entries) THEN entries
    ELSE {e \in entries : e.key # key}
             \cup {[key |-> key, value |-> value, expires |-> now + ttl]}

\* redis.del(key)
CacheDel(entries, key) ==
    IF Unreachable(entries) THEN entries ELSE {e \in entries : e.key # key}

\* redis.delPattern(prefix + ':*'): client.keys, then client.del of them; a
\* key matches when it is longer than the prefix and starts with it
StartsWith(key, prefix) ==
    /\ Len(key) > Len(prefix)
    /\ SubSeq(key, 1, Len(prefix)) = prefix

CacheKeys(entries, prefix, now) ==
    IF Unreachable(entries) THEN {}
    ELSE {e.key : e \in {x \in entries : StartsWith(x.key, prefix)
                                           /\ now < x.expires}}

CacheDelKeys(entries, keys) ==
    IF Unreachable(entries) THEN entries
    ELSE {e \in entries : e.key \notin keys}

\* ------------------------------------------- uvaSISService.searchClasses
SearchTTL == 86400000

FailedToFetch == <<"Failed", "to", "fetch", "classes", "from", "UVA", "SIS">>

\* String.toUpperCase on the subjects a client types
ToUpperCase(s) == CASE s = "cs" -> "CS" [] OTHER -> s

\* getCurrentTerm() at the date the clock starts from
GetCurrentTerm == "1268"

\* term || this.getCurrentTerm(); "" stands for no term
ActualTerm(term) == IF term = "" THEN GetCurrentTerm ELSE term

\* `class:${subject}:${catalogNumber}:${actualTerm}`
SearchKey(subject, catalogNumber, term) ==
    <<"class", subject, catalogNumber, term>>

\* what the catalog answers when it answers: one section of CS 2100 and one
\* of CS 3100 in term 1262, nothing else
SisCatalog(subject, catalogNumber, term) ==
    IF subject = "CS" /\ term = "1262" /\ catalogNumber \in {"2100", "3100"}
    THEN {[subject |-> "CS", catalog_nbr |-> catalogNumber,
           class_nbr |-> IF catalogNumber = "2100" THEN 1 ELSE 7]}
    ELSE {}

\* prisma.class.findMany({where: {subject, catalogNumber, term}}) with the
\* subject as the client typed it (not what the code does)
StoredAsTyped(rows, subject, catalogNumber, term) ==
    {s \in rows : /\ s.subject = subject
                  /\ s.catalogNumber = catalogNumber
                  /\ s.term = term}

\* prisma.class.findMany({where: {subject: subject.toUpperCase(),
\* catalogNumber, term: actualTerm}})
StoredFor(rows, subject, catalogNumber, term) ==
    {s \in rows : /\ s.subject = ToUpperCase(subject)
                  /\ s.catalogNumber = catalogNumber
                  /\ s.term = term}

\* classesController.searchClasses: the reply to an outcome
SearchResponse(out) ==
    IF out.status = "ok"
    THEN [status |-> 200, error |-> "", message |-> <<>>]
    ELSE IF out.message = FailedToFetch
    THEN [status |-> 503, error |-> "Service Unavailable",
          message |-> <<"UVA", "SIS", "API", "is", "temporarily", "unavailable">>]
    ELSE [status |-> 500, error |-> "Internal Server Error",
          message |-> <<"Failed", "to", "search", "classes">>]

\* the errors of addClassToUser before its already-enrolled check
ClassNotInSis == <<"Class", "not", "found", "in", "UVA", "SIS">>

ClassNotInDatabase == <<"Class", "not", "found", "in", "database">>

\* classesController.addClassToUser: the reply to an outcome
EnrollResponse(out) ==
    IF out.status = "ok"
    THEN [status |-> 201, error |-> "", message |-> <<>>]
    ELSE IF out.message = AlreadyEnrolled
    THEN [status |-> 400, error |-> "Already Enrolled", message |-> out.message]
    ELSE [status |-> 500, error |-> "Internal Server Error",
          message |-> out.message]

\* a searchClasses call at the step pc, made by a client or by addClassToUser
Searching(c, pc) == call[c].op \in {"search", "enroll"} /\ call[c].pc = pc

\* searchClasses returns or throws `out`: the reply of the controller, or
\* addClassToUser goes on with the list (classes.length === 0 throws)
Searched(slot, out) ==
    IF slot.op = "search" THEN Settle(slot, out, SearchResponse(out))
    ELSE IF out.status = "error" THEN Settle(slot, out, EnrollResponse(out))
    ELSE IF out.row = {}
    THEN Settle(slot, Throw("Error", ClassNotInSis),
                EnrollResponse(Throw("Error", ClassNotInSis)))
    ELSE [slot EXCEPT !.pc = "findFirst", !.seen = out.row, !.res = NoOut]

\* searchClasses: redis.get; a hit is returned as it is
SearchClasses(c, subject, catalogNumber, term) ==
    /\ SlotCall(c)
    /\ ops' = ops + 1
    /\ LET slot   == [IdleCall EXCEPT !.op = "search", !.via = "http",
                                      !.query = <<subject, catalogNumber>>,
                                      !.term = ActualTerm(term)]
           cached == CacheGet(cache, SearchKey(subject, catalogNumber,
                                               ActualTerm(term)), clock)
       IN IF cached = {}
          THEN call' = [call EXCEPT ![c] = [slot EXCEPT !.pc = "fetch"]]
          ELSE \E v \in cached :
                  call' = [call EXCEPT ![c] =
                      LET out == [NoOut EXCEPT !.status = "ok", !.row = v]
                      IN Settle(slot, out, SearchResponse(out))]
    /\ UNCHANGED <<userClasses, classMessages, emitted, chat, friendships,
                   classes, cache, rooms, clock, ticks, users, magicLinks,
                   sessions, seq, outbox, proc, sockets, lastConnect, hist>>

\* axios.get(config.uvaSis.apiUrl, ...) answers
SisAnswers(c) ==
    /\ Searching(c, "fetch")
    /\ LET slot == call[c]
           list == SisCatalog(ToUpperCase(slot.query[1]), slot.query[2],
                              slot.term)
       IN call' = [call EXCEPT ![c].pc = "set", ![c].seen = list,
                               ![c].res = [NoOut EXCEPT !.row = list]]
    /\ UNCHANGED <<userClasses, classMessages, emitted, chat, friendships,
                   classes, cache, rooms, clock, ticks, ops, users, magicLinks,
                   sessions, seq, outbox, proc, sockets, lastConnect, hist>>

\* axios.get(config.uvaSis.apiUrl, ...) fails or runs into its timeout
SisFails(c) ==
    /\ Searching(c, "fetch")
    /\ call' = [call EXCEPT ![c].pc = "fallback"]
    /\ UNCHANGED <<userClasses, classMessages, emitted, chat, friendships,
                   classes, cache, rooms, clock, ticks, ops, users, magicLinks,
                   sessions, seq, outbox, proc, sockets, lastConnect, hist>>

\* searchClasses: redis.set(cacheKey, classes, 86400); an empty list is
\* returned at once
SearchSet(c) ==
    /\ Searching(c, "set")
    /\ LET slot == call[c]
           out  == [NoOut EXCEPT !.status = "ok", !.row = slot.res.row]
       IN /\ cache' = CacheSet(cache, SearchKey(slot.query[1], slot.query[2],
                                                slot.term),
                               slot.res.row, SearchTTL, clock)
          /\ call' = [call EXCEPT ![c] =
                 IF slot.seen = {} THEN Searched(slot, out)
                 ELSE [slot EXCEPT !.pc = "store"]]
    /\ UNCHANGED <<userClasses, classMessages, emitted, chat, friendships,
                   classes, rooms, clock, ticks, ops, users, magicLinks,
                   sessions, seq, outbox, proc, sockets, lastConnect, hist>>

\* storeClassInDatabase of the next class of the list: prisma.class.upsert on
\* (subject, catalogNumber, term, sisClassNumber); after the last one the
\* list is returned
SearchStore(c) ==
    /\ Searching(c, "store")
    /\ LET slot == call[c]
           d    == CHOOSE x \in slot.seen :
                      \A y \in slot.seen : x.class_nbr <= y.class_nbr
           left == slot.seen \ {d}
           row  == [id |-> Cardinality(classes) + 1, subject |-> d.subject,
                    catalogNumber |-> d.catalog_nbr, term |-> slot.term,
                    sisClassNumber |-> d.class_nbr]
           out  == [NoOut EXCEPT !.status = "ok", !.row = slot.res.row]
       IN /\ classes' =
                 IF \E s \in classes :
                       /\ s.subject = row.subject
                       /\ s.catalogNumber = row.catalogNumber
                       /\ s.term = row.term
                       /\ s.sisClassNumber = row.sisClassNumber
                 THEN classes
                 ELSE classes \cup {row}
          /\ call' = [call EXCEPT ![c] =
                 IF left = {} THEN Searched(slot, out)
                 ELSE [slot EXCEPT !.seen = left]]
    /\ UNCHANGED <<userClasses, classMessages, emitted, chat, friendships,
                   cache, rooms, clock, ticks, ops, users, magicLinks,
                   sessions, seq, outbox, proc, sockets, lastConnect, hist>>

\* the catch of searchClasses: prisma.class.findMany, then the rows or the
\* error
SearchFallback(c) ==
    /\ Searching(c, "fallback")
    /\ LET slot == call[c]
           rows == StoredFor(classes, slot.query[1], slot.query[2], slot.term)
           out  == IF rows # {}
                   THEN [NoOut EXCEPT !.status = "ok", !.row = rows]
                   ELSE Throw("Error", FailedToFetch)
       IN call' = [call EXCEPT ![c] = Searched(slot, out)]
    /\ UNCHANGED <<userClasses, classMessages, emitted, chat, friendships,
                   classes, cache, rooms, clock, ticks, ops, users, magicLinks,
                   sessions, seq, outbox, proc, sockets, lastConnect, hist>>

\* ------------------------------------ classesService.addClassToUser
\* the call from its start: uvaSISService.searchClasses(subject,
\* catalogNumber, term), whose first step is redis.get
AddClass(c, userId, subject, catalogNumber, term) ==
    /\ SlotCall(c)
    /\ ops' = ops + 1
    /\ LET slot   == [IdleCall EXCEPT !.op = "enroll", !.via = "http",
                                      !.userId = userId,
                                      !.query = <<subject, catalogNumber>>,
                                      !.term = ActualTerm(term)]
           cached == CacheGet(cache, SearchKey(subject, catalogNumber,
                                               ActualTerm(term)), clock)
       IN IF cached = {}
          THEN call' = [call EXCEPT ![c] = [slot EXCEPT !.pc = "fetch"]]
          ELSE \E v \in cached :
                  call' = [call EXCEPT ![c] =
                      Searched(slot, [NoOut EXCEPT !.status = "ok", !.row = v])]
    /\ UNCHANGED <<userClasses, classMessages, emitted, chat, friendships,
                   classes, cache, rooms, clock, ticks, users, magicLinks,
                   sessions, seq, outbox, proc, sockets, lastConnect, hist>>

\* targetClass = classes[0]; prisma.class.findFirst({where: {subject,
\* catalogNumber, term, sisClassNumber: targetClass.class_nbr}}): the rows
\* of the fallback have no class_nbr, and a filter of undefined is no filter
EnrollFindFirst(c) ==
    /\ AtCall(c, "enroll", "findFirst")
    /\ LET slot  == call[c]
           nbr(x) == IF "class_nbr" \in DOMAIN x THEN x.class_nbr ELSE 0
           first == CHOOSE x \in slot.seen : \A y \in slot.seen : nbr(x) <= nbr(y)
           found == {s \in classes :
                        /\ s.subject = slot.query[1]
                        /\ s.catalogNumber = slot.query[2]
                        /\ s.term = slot.term
                        /\ "class_nbr" \in DOMAIN first
                               => s.sisClassNumber = first.class_nbr}
           out   == Throw("Error", ClassNotInDatabase)
       IN IF found = {}
          THEN call' = [call EXCEPT ![c] = Settle(slot, out, EnrollResponse(out))]
          ELSE \E dbClass \in found :
                  call' = [call EXCEPT ![c].classId = dbClass.id,
                                       ![c].seen = {}, ![c].pc = "check"]
    /\ UNCHANGED <<userClasses, classMessages, emitted, chat, friendships,
                   classes, cache, rooms, clock, ticks, ops, users, magicLinks,
                   sessions, seq, outbox, proc, sockets, lastConnect, hist>>

\* prisma.userClass.findUnique: the already-enrolled check
EnrollCheck(c) ==
    /\ AtCall(c, "enroll", "check")
    /\ LET slot == call[c]
           out  == Throw("Error", AlreadyEnrolled)
       IN call' = [call EXCEPT ![c] =
              IF Enrollment(userClasses, slot.userId, slot.classId) # {}
              THEN Settle(slot, out, EnrollResponse(out))
              ELSE [slot EXCEPT !.pc = "create"]]
    /\ UNCHANGED <<userClasses, classMessages, emitted, chat, friendships,
                   classes, cache, rooms, clock, ticks, ops, users, magicLinks,
                   sessions, seq, outbox, proc, sockets, lastConnect, hist>>

\* ------------------------------------- classesService: the cached lists
ClassesTTL == 3600000

\* `user:classes:${userId}${term ? `:${term}` : ''}`; "" stands for no term
ClassesKey(userId, term) ==
    IF term = "" THEN <<"user", "classes", userId>>
    ELSE <<"user", "classes", userId, term>>

\* `common:classes:${userId}:${friendId}`
CommonKey(userId, friendId) == <<"common", "classes", userId, friendId>>

\* the prefix of the pattern `common:classes:${userId}:*`
CommonPrefix(userId) == <<"common", "classes", userId>>

\* redis.del(`user:classes:${userId}`) of addClassToUser and
\* removeClassFromUser
ClassesInvalidate(c) ==
    /\ call[c].op \in {"enroll", "drop"}
    /\ call[c].pc = "del"
    /\ cache' = CacheDel(cache, ClassesKey(call[c].userId, ""))
    /\ call' = [call EXCEPT ![c].pc = "keys"]
    /\ UNCHANGED <<userClasses, classMessages, emitted, chat, friendships,
                   classes, rooms, clock, ticks, ops, users, magicLinks,
                   sessions, seq, outbox, proc, sockets, lastConnect, hist>>

\* redis.delPattern(`common:classes:${userId}:*`) of addClassToUser and
\* removeClassFromUser: client.keys, then client.del if there are any
CommonInvalidate(c) ==
    /\ call[c].op \in {"enroll", "drop"}
    /\ call[c].pc \in {"keys", "delKeys"}
    /\ LET slot == call[c]
           ok   == [NoOut EXCEPT !.status = "ok"]
           keys == CacheKeys(cache, CommonPrefix(slot.userId), clock)
       IN IF slot.pc = "keys" /\ keys # {}
          THEN /\ call' = [call EXCEPT ![c].pc = "delKeys", ![c].seen = keys]
               /\ UNCHANGED cache
          ELSE /\ cache' = CacheDelKeys(cache, slot.seen)
               /\ call' = [call EXCEPT ![c] = Settle(slot, ok, NoResponse)]
    /\ UNCHANGED <<userClasses, classMessages, emitted, chat, friendships,
                   classes, rooms, clock, ticks, ops, users, magicLinks,
                   sessions, seq, outbox, proc, sockets, lastConnect, hist>>

\* prisma.userClass.findMany({where: {userId, ...(term && {class: {term}})}})
ClassesOf(rows, sections, userId, term) ==
    {e \in rows :
        /\ e.userId = userId
        /\ term # "" => \E s \in sections : s.id = e.classId /\ s.term = term}

\* getUserClasses: redis.get; a hit is returned as it is
GetUserClasses(c, userId, term) ==
    /\ SlotCall(c)
    /\ ops' = ops + 1
    /\ LET slot   == [IdleCall EXCEPT !.op = "classes", !.via = "http",
                                      !.userId = userId, !.term = term]
           cached == CacheGet(cache, ClassesKey(userId, term), clock)
       IN IF cached = {}
          THEN call' = [call EXCEPT ![c] = [slot EXCEPT !.pc = "findMany"]]
          ELSE \E v \in cached :
                  call' = [call EXCEPT ![c] =
                      Settle(slot, [NoOut EXCEPT !.status = "ok", !.row = v],
                             [NoResponse EXCEPT !.status = 200])]
    /\ UNCHANGED <<userClasses, classMessages, emitted, chat, friendships,
                   classes, cache, rooms, clock, ticks, users, magicLinks,
                   sessions, seq, outbox, proc, sockets, lastConnect, hist>>

\* getUserClasses: prisma.userClass.findMany
UserClassesFindMany(c) ==
    /\ AtCall(c, "classes", "findMany")
    /\ call' = [call EXCEPT ![c].pc = "set",
                            ![c].seen = ClassesOf(userClasses, classes,
                                                  call[c].userId, call[c].term)]
    /\ UNCHANGED <<userClasses, classMessages, emitted, chat, friendships,
                   classes, cache, rooms, clock, ticks, ops, users, magicLinks,
                   sessions, seq, outbox, proc, sockets, lastConnect, hist>>

\* getUserClasses: redis.set(cacheKey, userClasses, 3600) and the return
UserClassesSet(c) ==
    /\ AtCall(c, "classes", "set")
    /\ LET slot == call[c]
       IN /\ cache' = CacheSet(cache, ClassesKey(slot.userId, slot.term),
                               slot.seen, ClassesTTL, clock)
          /\ call' = [call EXCEPT ![c] =
                 Settle(slot, [NoOut EXCEPT !.status = "ok", !.row = slot.seen],
                        [NoResponse EXCEPT !.status = 200])]
    /\ UNCHANGED <<userClasses, classMessages, emitted, chat, friendships,
                   classes, rooms, clock, ticks, ops, users, magicLinks,
                   sessions, seq, outbox, proc, sockets, lastConnect, hist>>

\* ---------------------------------------- friendsService.getCommonClasses
\* the class ids of the UserClass rows of a user
ClassIdsOf(rows, userId) == {e.classId : e \in {x \in rows : x.userId = userId}}

\* getCommonClasses: redis.get; a hit is returned as it is
GetCommonClasses(c, userId, friendId) ==
    /\ SlotCall(c)
    /\ ops' = ops + 1
    /\ LET slot   == [IdleCall EXCEPT !.op = "common", !.via = "http",
                                      !.userId = userId, !.other = friendId]
           cached == CacheGet(cache, CommonKey(userId, friendId), clock)
       IN IF cached = {}
          THEN call' = [call EXCEPT ![c] = [slot EXCEPT !.pc = "user"]]
          ELSE \E v \in cached :
                  call' = [call EXCEPT ![c] =
                      Settle(slot, [NoOut EXCEPT !.status = "ok", !.row = v],
                             [NoResponse EXCEPT !.status = 200])]
    /\ UNCHANGED <<userClasses, classMessages, emitted, chat, friendships,
                   classes, cache, rooms, clock, ticks, users, magicLinks,
                   sessions, seq, outbox, proc, sockets, lastConnect, hist>>

\* getCommonClasses: the two prisma.userClass.findMany and the
\* prisma.class.findMany, one after the other; commonClassIds is computed
\* after the second
CommonFindMany(c) ==
    /\ call[c].op = "common"
    /\ call[c].pc \in {"user", "friend", "class"}
    /\ LET slot == call[c]
       IN call' = [call EXCEPT ![c] =
              CASE slot.pc = "user" ->
                      [slot EXCEPT !.pc = "friend",
                                   !.seen = ClassIdsOf(userClasses, slot.userId)]
                [] slot.pc = "friend" ->
                      [slot EXCEPT !.pc = "class",
                                   !.seen = ClassIdsOf(userClasses, slot.other)
                                                \cap slot.seen]
                [] slot.pc = "class" ->
                      [slot EXCEPT !.pc = "set",
                                   !.seen = {s.id : s \in {x \in classes :
                                                     x.id \in slot.seen}}]]
    /\ UNCHANGED <<userClasses, classMessages, emitted, chat, friendships,
                   classes, cache, rooms, clock, ticks, ops, users, magicLinks,
                   sessions, seq, outbox, proc, sockets, lastConnect, hist>>

\* getCommonClasses: redis.set(cacheKey, commonClasses, 3600) and the return
CommonSet(c) ==
    /\ AtCall(c, "common", "set")
    /\ LET slot == call[c]
       IN /\ cache' = CacheSet(cache, CommonKey(slot.userId, slot.other),
                               slot.seen, ClassesTTL, clock)
          /\ call' = [call EXCEPT ![c] =
                 Settle(slot, [NoOut EXCEPT !.status = "ok", !.row = slot.seen],
                        [NoResponse EXCEPT !.status = 200])]
    /\ UNCHANGED <<userClasses, classMessages, emitted, chat, friendships,
                   classes, rooms, clock, ticks, ops, users, magicLinks,
                   sessions, seq, outbox, proc, sockets, lastConnect, hist>>

\* ------------------------------------------------------- friendsService
CannotFriendSelf == <<"Cannot", "send", "friend", "request", "to", "yourself">>

AlreadyFriends == <<"Already", "friends">>

AlreadySent == <<"Friend", "request", "already", "sent">>

RequestNotFound == <<"Friend", "request", "not", "found">>

FriendshipNotFound == <<"Friendship", "not", "found">>

NotAuthorized(verb, what) == <<"Not", "authorized", "to", verb, "this", what>>

FriendsTTL == 3600000

FriendsKey(userId) == <<"user", "friends", userId>>

\* findFirst({OR: [{userId1: a, userId2: b}, {userId1: b, userId2: a}]}):
\* the rows it may return
Between(rows, a, b) ==
    {f \in rows : \/ f.userId1 = a /\ f.userId2 = b
                  \/ f.userId1 = b /\ f.userId2 = a}

\* what sendFriendRequest does with the row it found
RequestCheck(existing) ==
    IF existing.status = "ACCEPTED" THEN Throw("Error", AlreadyFriends)
    ELSE IF existing.status = "PENDING" THEN Throw("Error", AlreadySent)
    ELSE NoOut

\* friendsController.sendFriendRequest: the reply to an outcome
RequestResponse(out) ==
    IF out.status = "ok"
    THEN [status |-> 201, error |-> "", message |-> <<"Friend", "request", "sent">>]
    ELSE IF \/ Includes(out.message, <<"Already", "friends">>)
            \/ Includes(out.message, <<"already", "sent">>)
    THEN [status |-> 400, error |-> "Bad Request", message |-> out.message]
    ELSE [status |-> 500, error |-> "Internal Server Error",
          message |-> <<"Failed", "to", "send", "friend", "request">>]

\* friendsController accept, reject and remove: the reply to an outcome
FriendResponse(op, what, out) ==
    IF out.status = "ok"
    THEN [status |-> 200, error |-> "", message |-> <<>>]
    ELSE IF out.message = NotAuthorized(op, what)
    THEN [status |-> 403, error |-> "Forbidden", message |-> out.message]
    ELSE [status |-> 500, error |-> "Internal Server Error", message |-> <<>>]

\* sendFriendRequest up to its prisma.friendship.create
SendFriendRequest(c, fromUserId, toUserId) ==
    /\ SlotCall(c)
    /\ ops' = ops + 1
    /\ LET slot  == [IdleCall EXCEPT !.op = "request", !.via = "http",
                                     !.userId = fromUserId, !.other = toUserId]
           found == Between(friendships, fromUserId, toUserId)
           go(out) == IF out.status = "error"
                      THEN Settle(slot, out, RequestResponse(out))
                      ELSE [slot EXCEPT !.pc = "create"]
       IN IF fromUserId = toUserId
          THEN call' = [call EXCEPT ![c] = go(Throw("Error", CannotFriendSelf))]
          ELSE IF found = {}
          THEN call' = [call EXCEPT ![c] = go(NoOut)]
          ELSE \E existing \in found :
                  call' = [call EXCEPT ![c] = go(RequestCheck(existing))]
    /\ UNCHANGED <<userClasses, classMessages, emitted, chat, friendships,
                   classes, cache, rooms, clock, ticks, users, magicLinks,
                   sessions, seq, outbox, proc, sockets, lastConnect, hist>>

\* prisma.friendship.create: (userId1, userId2) is unique, both reference a
\* User
FriendshipCreate(c) ==
    /\ AtCall(c, "request", "create")
    /\ LET slot == call[c]
           row  == [id |-> seq.friendship, userId1 |-> slot.userId,
                    userId2 |-> slot.other, status |-> "PENDING"]
           fail(code) == Throw("Prisma", <<code>>)
       IN IF \E f \in friendships : f.userId1 = row.userId1 /\ f.userId2 = row.userId2
          THEN /\ call' = [call EXCEPT ![c] =
                      Settle(slot, fail("P2002"), RequestResponse(fail("P2002")))]
               /\ UNCHANGED <<friendships, seq>>
          ELSE IF ~\A id \in {row.userId1, row.userId2} : \E u \in users : u.id = id
          THEN /\ call' = [call EXCEPT ![c] =
                      Settle(slot, fail("P2003"), RequestResponse(fail("P2003")))]
               /\ UNCHANGED <<friendships, seq>>
          ELSE /\ friendships' = friendships \cup {row}
               /\ seq' = [seq EXCEPT !.friendship = @ + 1]
               /\ call' = [call EXCEPT ![c] =
                      LET out == [NoOut EXCEPT !.status = "ok", !.row = {row}]
                      IN Settle(slot, out, RequestResponse(out))]
    /\ UNCHANGED <<userClasses, classMessages, emitted, chat, classes, cache,
                   rooms, clock, ticks, ops, users, magicLinks, sessions,
                   outbox, proc, sockets, lastConnect, hist>>

\* either user of the row may answer (not what the code does)
MayAnswerEither(friendship, userId) ==
    friendship.userId1 = userId \/ friendship.userId2 = userId

\* the recipient alone may answer a request
MayAnswer(friendship, userId) == friendship.userId2 = userId

\* either user of the row may remove it
MayRemove(friendship, userId) ==
    friendship.userId1 = userId \/ friendship.userId2 = userId

\* acceptFriendRequest, rejectFriendRequest and removeFriend up to their
\* write: findUnique, then the check of the caller
FriendshipCall(c, op, friendshipId, userId) ==
    /\ SlotCall(c)
    /\ ops' = ops + 1
    /\ LET slot  == [IdleCall EXCEPT !.op = op, !.via = "http",
                                     !.userId = userId, !.other = friendshipId]
           found == {f \in friendships : f.id = friendshipId}
           what  == IF op = "remove" THEN "friendship" ELSE "request"
           out   == IF found = {}
                    THEN Throw("Error", IF op = "remove" THEN FriendshipNotFound
                                        ELSE RequestNotFound)
                    ELSE IF \E f \in found :
                               IF op = "remove" THEN ~MayRemove(f, userId)
                               ELSE ~MayAnswer(f, userId)
                    THEN Throw("Error", NotAuthorized(op, what))
                    ELSE NoOut
       IN call' = [call EXCEPT ![c] =
              IF out.status = "error"
              THEN Settle(slot, out, FriendResponse(op, what, out))
              ELSE [slot EXCEPT !.pc = "write", !.seen = found]]
    /\ UNCHANGED <<userClasses, classMessages, emitted, chat, friendships,
                   classes, cache, rooms, clock, ticks, users, magicLinks,
                   sessions, seq, outbox, proc, sockets, lastConnect, hist>>

AcceptFriendRequest(c, friendshipId, userId) ==
    FriendshipCall(c, "accept", friendshipId, userId)

RejectFriendRequest(c, friendshipId, userId) ==
    FriendshipCall(c, "reject", friendshipId, userId)

RemoveFriend(c, friendshipId, userId) ==
    FriendshipCall(c, "remove", friendshipId, userId)

\* prisma.friendship.update({where: {id}, data: {status}}) of accept and
\* reject, prisma.friendship.delete({where: {id}}) of remove
FriendshipWrite(c) ==
    /\ call[c].op \in {"accept", "reject", "remove"}
    /\ call[c].pc = "write"
    /\ LET slot == call[c]
           what == IF slot.op = "remove" THEN "friendship" ELSE "request"
           row  == {f \in friendships : f.id = slot.other}
           fail == Throw("Prisma", <<"P2025">>)
           ok   == [NoOut EXCEPT !.status = "ok"]
           to   == IF slot.op = "accept" THEN "ACCEPTED" ELSE "REJECTED"
       IN IF row = {}
          THEN /\ call' = [call EXCEPT ![c] =
                      Settle(slot, fail, FriendResponse(slot.op, what, fail))]
               /\ UNCHANGED friendships
          ELSE /\ friendships' =
                      IF slot.op = "remove" THEN friendships \ row
                      ELSE (friendships \ row)
                               \cup {[f EXCEPT !.status = to] : f \in row}
               /\ call' = [call EXCEPT ![c] =
                      IF slot.op = "reject"
                      THEN Settle(slot, ok, FriendResponse(slot.op, what, ok))
                      ELSE [slot EXCEPT !.pc = "del1"]]
    /\ UNCHANGED <<userClasses, classMessages, emitted, chat, classes, cache,
                   rooms, clock, ticks, ops, users, magicLinks, sessions, seq,
                   outbox, proc, sockets, lastConnect, hist>>

\* redis.del(`user:friends:${friendship.userId1}`), then the same for userId2
FriendshipInvalidate(c) ==
    /\ call[c].op \in {"accept", "remove"}
    /\ call[c].pc \in {"del1", "del2"}
    /\ LET slot == call[c]
           what == IF slot.op = "remove" THEN "friendship" ELSE "request"
           ok   == [NoOut EXCEPT !.status = "ok"]
       IN \E f \in slot.seen :
             IF slot.pc = "del1"
             THEN /\ cache' = CacheDel(cache, FriendsKey(f.userId1))
                  /\ call' = [call EXCEPT ![c].pc = "del2"]
             ELSE /\ cache' = CacheDel(cache, FriendsKey(f.userId2))
                  /\ call' = [call EXCEPT ![c] =
                         Settle(slot, ok, FriendResponse(slot.op, what, ok))]
    /\ UNCHANGED <<userClasses, classMessages, emitted, chat, friendships,
                   classes, rooms, clock, ticks, ops, users, magicLinks,
                   sessions, seq, outbox, proc, sockets, lastConnect, hist>>

\* the list getFriends builds from the ACCEPTED rows of the user
FriendsOf(rows, userId) ==
    {[id |-> f.id,
      friend |-> IF f.userId1 = userId THEN f.userId2 ELSE f.userId1] :
        f \in {x \in rows : /\ x.status = "ACCEPTED"
                            /\ (x.userId1 = userId \/ x.userId2 = userId)}}

\* getFriends: redis.get; a hit is returned as it is
GetFriends(c, userId) ==
    /\ SlotCall(c)
    /\ ops' = ops + 1
    /\ LET slot   == [IdleCall EXCEPT !.op = "friends", !.via = "http",
                                      !.userId = userId]
           cached == CacheGet(cache, FriendsKey(userId), clock)
       IN IF cached = {}
          THEN call' = [call EXCEPT ![c] = [slot EXCEPT !.pc = "findMany"]]
          ELSE \E v \in cached :
                  call' = [call EXCEPT ![c] =
                      Settle(slot, [NoOut EXCEPT !.status = "ok", !.row = v],
                             [NoResponse EXCEPT !.status = 200])]
    /\ UNCHANGED <<userClasses, classMessages, emitted, chat, friendships,
                   classes, cache, rooms, clock, ticks, users, magicLinks,
                   sessions, seq, outbox, proc, sockets, lastConnect, hist>>

\* getFriends: prisma.friendship.findMany and the map over its rows
FriendsFindMany(c) ==
    /\ AtCall(c, "friends", "findMany")
    /\ call' = [call EXCEPT ![c].pc = "set",
                            ![c].seen = FriendsOf(friendships, call[c].userId)]
    /\ UNCHANGED <<userClasses, classMessages, emitted, chat, friendships,
                   classes, cache, rooms, clock, ticks, ops, users, magicLinks,
                   sessions, seq, outbox, proc, sockets, lastConnect, hist>>

\* getFriends: redis.set(cacheKey, friends, 3600) and the return
FriendsSet(c) ==
    /\ AtCall(c, "friends", "set")
    /\ LET slot == call[c]
       IN /\ cache' = CacheSet(cache, FriendsKey(slot.userId), slot.seen,
                               FriendsTTL, clock)
          /\ call' = [call EXCEPT ![c] =
                 Settle(slot, [NoOut EXCEPT !.status = "ok", !.row = slot.seen],
                        [NoResponse EXCEPT !.status = 200])]
    /\ UNCHANGED <<userClasses, classMessages, emitted, chat, friendships,
                   classes, rooms, clock, ticks, ops, users, magicLinks,
                   sessions, seq, outbox, proc, sockets, lastConnect, hist>>

\* ------------------------------------------------------ specifications
\* the credentials a client can present: the issued ones and forgeries
Credentials == hist.issued \cup {Forge(c) : c \in hist.issued}

\* room left to generate a token
CanRequest == seq.token + Pending <= MaxTokens

\* no call in flight
Quiet == \A p \in Procs : Free(p)

\* logging in: concurrent requestMagicLink and verifyMagicLink calls
NextLogin ==
    \/ \E d \in {500, MagicLinkTTL} : Tick(d)
    \/ \E p \in Procs, e \in EmailInputs :
          ops < MaxLoginOps /\ CanRequest /\ RequestMagicLink(p, e)
    \/ \E p \in Procs : seq.user <= MaxUsers /\ ReqCreateUser(p)
    \/ \E p \in Procs : ReqCreateLink(p)
    \/ \E p \in Procs : ReqSendEmail(p)
    \/ \E p \in Procs : ReqSendEmailFails(p)
    \/ \E p \in Procs, t \in Tokens : ops < MaxLoginOps /\ VerifyMagicLink(p, t)
    \/ \E p \in Procs : VerifyMarkUsed(p)
    \/ \E p \in Procs : VerifyUpdateUser(p)
    \/ \E p \in Procs : VerifyCreateSession(p)

SpecLogin == Init /\ [][NextLogin]_vars

\* calls made one after another: a call starts when none is in flight
NextSeq ==
    \/ \E d \in {500, MagicLinkTTL} : Tick(d)
    \/ \E p \in Procs, e \in {<<"bob", Domain>>, <<"Bob", Domain>>} :
          Quiet /\ ops < MaxSeqOps /\ CanRequest /\ RequestMagicLink(p, e)
    \/ \E p \in Procs : seq.user <= MaxUsers /\ ReqCreateUser(p)
    \/ \E p \in Procs : ReqCreateLink(p)
    \/ \E p \in Procs : ReqSendEmail(p)
    \/ \E p \in Procs : ReqSendEmailFails(p)
    \/ \E p \in Procs, t \in Tokens :
          Quiet /\ ops < MaxSeqOps /\ VerifyMagicLink(p, t)
    \/ \E p \in Procs : VerifyMarkUsed(p)
    \/ \E p \in Procs : VerifyUpdateUser(p)
    \/ \E p \in Procs : VerifyCreateSession(p)
    \/ \E p \in Procs, c \in Credentials :
          Quiet /\ ops < MaxSeqOps /\ ValidateToken(p, c)
    \/ \E p \in Procs : ValidateTouch(p)
    \/ \E p \in Procs, c \in Credentials :
          Quiet /\ ops < MaxSeqOps /\ Logout(p, c)
    \/ \E u \in 1..MaxUsers : Quiet /\ ops < MaxSeqOps /\ DeleteAccount(u)

SpecSeq == Init /\ [][NextSeq]_vars

\* sessions: one user logs in, then validateToken, logout, deleteAccount and
\* socket handshakes run concurrently
NextSession ==
    \/ \E d \in {500, SessionTTL} : Tick(d)
    \/ \E p \in Procs :
          ops < MaxSessionOps /\ CanRequest /\ RequestMagicLink(p, <<"bob", Domain>>)
    \/ \E p \in Procs : seq.user <= MaxUsers /\ ReqCreateUser(p)
    \/ \E p \in Procs : ReqCreateLink(p)
    \/ \E p \in Procs : ReqSendEmail(p)
    \/ \E p \in Procs, t \in Tokens : ops < MaxSessionOps /\ VerifyMagicLink(p, t)
    \/ \E p \in Procs : VerifyMarkUsed(p)
    \/ \E p \in Procs : VerifyUpdateUser(p)
    \/ \E p \in Procs : VerifyCreateSession(p)
    \/ \E p \in Procs, c \in Credentials :
          ops < MaxSessionOps /\ ValidateToken(p, c)
    \/ \E p \in Procs : ValidateTouch(p)
    \/ \E p \in Procs, c \in Credentials : ops < MaxSessionOps /\ Logout(p, c)
    \/ \E u \in 1..MaxUsers : ops < MaxSessionOps /\ DeleteAccount(u)
    \/ \E c \in Credentials \cup {NoCred} :
          ops < MaxSessionOps /\ seq.socket <= MaxSockets /\ SocketConnect(c)

SpecSession == Init /\ [][NextSession]_vars

\* requesting links: concurrent requestMagicLink calls with every input
NextRequest ==
    \/ Tick(500)
    \/ \E p \in Procs, e \in EmailInputs :
          ops < MaxRequestOps /\ CanRequest /\ RequestMagicLink(p, e)
    \/ \E p \in Procs : seq.user <= MaxUsers /\ ReqCreateUser(p)
    \/ \E p \in Procs : ReqCreateLink(p)
    \/ \E p \in Procs : ReqSendEmail(p)
    \/ \E p \in Procs : ReqSendEmailFails(p)

SpecRequest == Init /\ [][NextRequest]_vars

\* a link ages: one address requests, verifyMagicLink calls come at any time
NextExpiry ==
    \/ \E d \in {500, MagicLinkTTL} : Tick(d)
    \/ \E p \in Procs :
          ops < MaxExpiryOps /\ CanRequest /\ RequestMagicLink(p, <<"bob", Domain>>)
    \/ \E p \in Procs : seq.user <= MaxUsers /\ ReqCreateUser(p)
    \/ \E p \in Procs : ReqCreateLink(p)
    \/ \E p \in Procs : ReqSendEmail(p)
    \/ \E p \in Procs, t \in Tokens : ops < MaxExpiryOps /\ VerifyMagicLink(p, t)
    \/ \E p \in Procs : VerifyMarkUsed(p)
    \/ \E p \in Procs : VerifyUpdateUser(p)
    \/ \E p \in Procs : VerifyCreateSession(p)

SpecExpiry == Init /\ [][NextExpiry]_vars

\* logging out: one address logs in, logout calls with any credential
NextLogout ==
    \/ Tick(SessionTTL)
    \/ \E p \in Procs :
          ops < MaxLogoutOps /\ CanRequest /\ RequestMagicLink(p, <<"bob", Domain>>)
    \/ \E p \in Procs : seq.user <= MaxUsers /\ ReqCreateUser(p)
    \/ \E p \in Procs : ReqCreateLink(p)
    \/ \E p \in Procs : ReqSendEmail(p)
    \/ \E p \in Procs, t \in Tokens : ops < MaxLogoutOps /\ VerifyMagicLink(p, t)
    \/ \E p \in Procs : VerifyMarkUsed(p)
    \/ \E p \in Procs : VerifyUpdateUser(p)
    \/ \E p \in Procs : VerifyCreateSession(p)
    \/ \E p \in Procs, c \in Credentials : ops < MaxLogoutOps /\ Logout(p, c)

SpecLogout == Init /\ [][NextLogout]_vars

\* calls in flight of one kind
InFlight(op) == {c \in Calls : call[c].op = op /\ ~FreeCall(c)}

\* no class or message call in flight
QuietCalls == \A c \in Calls : FreeCall(c)

\* addClassToUser and removeClassFromUser calls in flight
Enrolling == InFlight("enroll") \cup InFlight("drop")

\* flagging: one member posts one message, flagMessage calls by anyone run
\* concurrently with each other and with listings
NextFlag ==
    \/ \E c \in Calls :
          /\ ops < MaxFlagOps /\ userClasses = {} /\ InFlight("enroll") = {}
          /\ AddClassToUser(c, 1, 1)
    \/ \E c \in Calls : EnrollCreate(c)
    \/ \E c \in Calls : ClassesInvalidate(c)
    \/ \E c \in Calls : CommonInvalidate(c)
    \/ \E c \in Calls :
          /\ ops < MaxFlagOps /\ classMessages = {} /\ InFlight("post") = {}
          /\ CreateMessage(c, "http", 1, 1, <<"hi">>, 0)
    \/ \E c \in Calls : MessageCreate(c)
    \/ \E c \in Calls, u \in UserIds : ops < MaxFlagOps /\ FlagMessage(c, 1, u)
    \/ \E c \in Calls : FlagIncrement(c)
    \/ \E c \in Calls : FlagHide(c)
    \/ \E c \in Calls :
          /\ ops < MaxFlagOps /\ InFlight("list") = {}
          /\ GetClassMessages(c, 1, 1, 0, 0)
    \/ \E c \in Calls : ListFindMany(c)
    \/ \E c \in Calls : ListCount(c)
    \/ \E c \in Calls : ops < MaxFlagOps /\ RemoveClassFromUser(c, 1, 1)

SpecFlag == InitChat /\ [][NextFlag]_vars

\* no call that writes rows is in flight
NoWrite == InFlight("enroll") \cup InFlight("post") \cup InFlight("flag") = {}

\* getClassMessages calls started so far, where every other call is a post
\* or a flag that cannot fail
ListsStarted ==
    ops - (seq.message - 1) - Cardinality(InFlight("post"))
        - chat.flagged[1] - Cardinality(InFlight("flag"))

\* listing: a member of two classes posts two messages, the first
\* one gets flagged until it is hidden, and getClassMessages calls run at any
\* moment, one write at a time beside them; time passes between the posts
NextList ==
    \/ QuietCalls /\ seq.message <= 2 /\ Tick(500)
    \/ \E c \in Calls, k \in {1, 2} :
          /\ NoWrite /\ seq.message <= 2
          /\ CreateMessage(c, "http", 1, k, <<"hi">>, 0)
    \/ \E c \in Calls : MessageCreate(c)
    \/ \E c \in Calls :
          /\ NoWrite
          /\ \E m \in classMessages : m.id = 1 /\ ~m.hidden
          /\ FlagMessage(c, 1, 1)
    \/ \E c \in Calls : FlagIncrement(c)
    \/ \E c \in Calls : FlagHide(c)
    \/ \E c \in Calls, limit \in {0, 1}, offset \in {0, 1} :
          /\ ListsStarted < MaxListOps /\ InFlight("list") = {}
          /\ GetClassMessages(c, 1, 1, limit, offset)
    \/ \E c \in Calls : ListFindMany(c)
    \/ \E c \in Calls : ListCount(c)

SpecList == InitMember /\ [][NextList]_vars

\* replies: a member posts a message and replies to it, one post at a time,
\* and lists the class
NextReplies ==
    \/ \E c \in Calls, parent \in {0, 1} :
          /\ ops < MaxReplyOps /\ NoWrite /\ seq.message <= MaxMessages
          /\ CreateMessage(c, "http", 1, 1, <<"hi">>, parent)
    \/ \E c \in Calls : MessageCreate(c)
    \/ \E c \in Calls :
          /\ ops < MaxReplyOps /\ InFlight("list") = {}
          /\ GetClassMessages(c, 1, 1, 1, 0)
    \/ \E c \in Calls : ListFindMany(c)
    \/ \E c \in Calls : ListCount(c)

SpecReplies == InitMember /\ [][NextReplies]_vars

\* posting: accounts join and leave a class and post to it over HTTP and
\* from sockets, concurrently
NextPost ==
    \/ \E c \in Calls, u \in UserIds :
          ops < MaxPostOps /\ Enrolling = {} /\ AddClassToUser(c, u, 1)
    \/ \E c \in Calls : EnrollCreate(c)
    \/ \E c \in Calls : ClassesInvalidate(c)
    \/ \E c \in Calls : CommonInvalidate(c)
    \/ \E c \in Calls, u \in UserIds :
          ops < MaxPostOps /\ Enrolling = {} /\ RemoveClassFromUser(c, u, 1)
    \/ \E c \in Calls, via \in {"http", "socket"}, u \in UserIds,
          content \in {<<"hi">>, <<" ">>} :
          /\ ops < MaxPostOps /\ seq.message <= MaxMessages
          /\ CreateMessage(c, via, u, 1, content, 0)
    \/ \E c \in Calls : MessageCreate(c)
    \/ \E c \in Calls : SendMessageEmit(c)

SpecPost == InitChat /\ [][NextPost]_vars

\* content a client may send: plain, padded, blank, markup, and markup close
\* to the length limit
ContentInputs ==
    { <<"hi">>, <<" ", "hi", " ">>, <<" ">>, <<"<", "hi", ">">>,
      <<"<", "x997">> }

\* content: a member posts every kind of content over HTTP and from a socket
NextContent ==
    \/ \E c \in Calls, via \in {"http", "socket"}, content \in ContentInputs :
          /\ ops < MaxContentOps /\ seq.message <= MaxMessages
          /\ CreateMessage(c, via, 1, 1, content, 0)
    \/ \E c \in Calls : MessageCreate(c)
    \/ \E c \in Calls : SendMessageEmit(c)

SpecContent == InitMember /\ [][NextContent]_vars

\* friends: three accounts send, answer and remove friend requests and read
\* their friends lists, concurrently
People == 1..MaxPeople

FriendshipIds == 1..MaxFriendships

Accounts ==
    {[id |-> u, email |-> <<Name(u), Domain>>, emailVerified |-> TRUE] :
        u \in People}

InitFriends == Start(Accounts, {})

NextFriends ==
    \/ \E c \in Calls, a \in People, b \in People :
          /\ ops < MaxFriendOps /\ seq.friendship <= MaxFriendships
          /\ SendFriendRequest(c, a, b)
    \/ \E c \in Calls : FriendshipCreate(c)
    \/ \E c \in Calls, id \in FriendshipIds, u \in People :
          ops < MaxFriendOps /\ AcceptFriendRequest(c, id, u)
    \/ \E c \in Calls, id \in FriendshipIds, u \in People :
          ops < MaxFriendOps /\ RejectFriendRequest(c, id, u)
    \/ \E c \in Calls, id \in FriendshipIds, u \in People :
          ops < MaxFriendOps /\ RemoveFriend(c, id, u)
    \/ \E c \in Calls : FriendshipWrite(c)
    \/ \E c \in Calls : FriendshipInvalidate(c)
    \/ \E c \in Calls, u \in People : ops < MaxFriendOps /\ GetFriends(c, u)
    \/ \E c \in Calls : FriendsFindMany(c)
    \/ \E c \in Calls : FriendsSet(c)

SpecFriends == InitFriends /\ [][NextFriends]_vars

\* answering: the first account has sent a request to the second; anyone
\* accepts, rejects or removes it, and the two read their friends lists
Requested == {[id |-> 1, userId1 |-> 1, userId2 |-> 2, status |-> "PENDING"]}

InitAnswer == StartWith(Accounts, {}, Requested)

NextAnswer ==
    \/ \E c \in Calls, u \in People :
          ops < MaxAnswerOps /\ AcceptFriendRequest(c, 1, u)
    \/ \E c \in Calls, u \in People :
          ops < MaxAnswerOps /\ RejectFriendRequest(c, 1, u)
    \/ \E c \in Calls, u \in People :
          ops < MaxAnswerOps /\ RemoveFriend(c, 1, u)
    \/ \E c \in Calls : FriendshipWrite(c)
    \/ \E c \in Calls : FriendshipInvalidate(c)
    \/ \E c \in Calls, u \in {1, 2} : ops < MaxAnswerOps /\ GetFriends(c, u)
    \/ \E c \in Calls : FriendsFindMany(c)
    \/ \E c \in Calls : FriendsSet(c)

SpecAnswer == InitAnswer /\ [][NextAnswer]_vars

\* friends lists: the two accounts of a request accept or remove it while
\* they read their friends lists
NextFriendsCache ==
    \/ \E c \in Calls : ops < MaxCacheOps /\ AcceptFriendRequest(c, 1, 2)
    \/ \E c \in Calls, u \in {1, 2} : ops < MaxCacheOps /\ RemoveFriend(c, 1, u)
    \/ \E c \in Calls : FriendshipWrite(c)
    \/ \E c \in Calls : FriendshipInvalidate(c)
    \/ \E c \in Calls, u \in {1, 2} : ops < MaxCacheOps /\ GetFriends(c, u)
    \/ \E c \in Calls : FriendsFindMany(c)
    \/ \E c \in Calls : FriendsSet(c)

SpecFriendsCache == InitAnswer /\ [][NextFriendsCache]_vars

\* class lists: the first account joins and leaves a class and reads its
\* class list, with and without a term, one call after the other
NextClasses ==
    \/ \E c \in Calls :
          ops < MaxClassOps /\ QuietCalls /\ AddClassToUser(c, 1, 1)
    \/ \E c \in Calls : EnrollCreate(c)
    \/ \E c \in Calls :
          ops < MaxClassOps /\ QuietCalls /\ RemoveClassFromUser(c, 1, 1)
    \/ \E c \in Calls : ClassesInvalidate(c)
    \/ \E c \in Calls : CommonInvalidate(c)
    \/ \E c \in Calls, term \in {"", "1262"} :
          ops < MaxClassOps /\ QuietCalls /\ GetUserClasses(c, 1, term)
    \/ \E c \in Calls : UserClassesFindMany(c)
    \/ \E c \in Calls : UserClassesSet(c)

SpecClasses == InitChat /\ [][NextClasses]_vars

\* common classes: the second account joins and leaves a class of the first,
\* and each asks for the classes it shares with the other, one call after
\* the other
NextCommon ==
    \/ \E c \in Calls :
          ops < MaxCommonOps /\ QuietCalls /\ AddClassToUser(c, 2, 1)
    \/ \E c \in Calls : EnrollCreate(c)
    \/ \E c \in Calls :
          ops < MaxCommonOps /\ QuietCalls /\ RemoveClassFromUser(c, 2, 1)
    \/ \E c \in Calls : ClassesInvalidate(c)
    \/ \E c \in Calls : CommonInvalidate(c)
    \/ \E c \in Calls, u \in {1, 2} :
          ops < MaxCommonOps /\ QuietCalls /\ GetCommonClasses(c, u, 3 - u)
    \/ \E c \in Calls : CommonFindMany(c)
    \/ \E c \in Calls : CommonSet(c)

SpecCommon == InitMember /\ [][NextCommon]_vars

\* searching: clients search the catalog for two courses, typing the
\* subject in either case, while the catalog answers or fails
NextSearch ==
    \/ \E c \in Calls, subject \in {"cs", "CS"}, number \in {"2100", "3100"},
          term \in {"", "1262"} :
          ops < MaxSearchOps /\ SearchClasses(c, subject, number, term)
    \/ \E c \in Calls : SisAnswers(c)
    \/ \E c \in Calls : SisFails(c)
    \/ \E c \in Calls : SearchSet(c)
    \/ \E c \in Calls : SearchStore(c)
    \/ \E c \in Calls : SearchFallback(c)

SpecSearch == InitChat /\ [][NextSearch]_vars

\* rooms: sockets join and leave the room of a class while a member posts
\* to it over HTTP and from sockets
NextRoom ==
    \/ \E u \in UserIds : ops < MaxRoomOps /\ JoinClass(u, 1)
    \/ \E u \in UserIds : ops < MaxRoomOps /\ LeaveClass(u, 1)
    \/ \E c \in Calls, via \in {"http", "socket"} :
          /\ ops < MaxRoomOps /\ seq.message <= MaxMessages
          /\ CreateMessage(c, via, 1, 1, <<"hi">>, 0)
    \/ \E c \in Calls : MessageCreate(c)
    \/ \E c \in Calls : SendMessageEmit(c)

SpecRoom == InitMember /\ [][NextRoom]_vars

\* the limiter: one member posts to one class over HTTP and then from a
\* socket, one post after the other, and one whole limiter window passes
NextLimit ==
    \/ QuietCalls /\ ticks = 0 /\ Tick(MessageWindow)
    \/ \E c \in Calls :
          /\ ops < MaxLimitOps /\ QuietCalls /\ Broadcasts = {}
          /\ PostMessage(c, 1, 1, <<"hi">>, 0)
    \/ \E c \in Calls :
          /\ ops < MaxLimitOps /\ QuietCalls
          /\ CreateMessage(c, "socket", 1, 1, <<"hi">>, 0)
    \/ \E c \in Calls : MessageCreate(c)
    \/ \E c \in Calls : SendMessageEmit(c)

SpecLimit == InitMember /\ [][NextLimit]_vars

\* the first account is enrolled in two classes and has sent a friend request
\* to the second
InitBoth == StartWith(Registered, Members, Requested)

\* deleting an account: the first account logs in and posts; deleteAccount
\* runs between the steps of any call; the address may register again
\* afterwards
NextDelete ==
    \/ \E p \in Procs :
          /\ Quiet /\ ops < MaxDeleteOps /\ CanRequest
          /\ RequestMagicLink(p, <<"bob", Domain>>)
    \/ \E p \in Procs : seq.user <= MaxUsers + 1 /\ ReqCreateUser(p)
    \/ \E p \in Procs : ReqCreateLink(p)
    \/ \E p \in Procs : ReqSendEmail(p)
    \/ \E p \in Procs, t \in Tokens :
          Quiet /\ ops < MaxDeleteOps /\ VerifyMagicLink(p, t)
    \/ \E p \in Procs : VerifyMarkUsed(p)
    \/ \E p \in Procs : VerifyUpdateUser(p)
    \/ \E p \in Procs : VerifyCreateSession(p)
    \/ \E p \in Procs, c \in hist.issued :
          Quiet /\ ops < MaxDeleteOps /\ ValidateToken(p, c)
    \/ \E p \in Procs : ValidateTouch(p)
    \/ \E c \in Calls :
          /\ QuietCalls /\ ops < MaxDeleteOps /\ seq.message <= MaxMessages
          /\ CreateMessage(c, "http", 1, 1, <<"hi">>, 0)
    \/ \E c \in Calls : MessageCreate(c)
    \/ ops < MaxDeleteOps /\ DeleteAccount(1)

SpecDelete == InitBoth /\ [][NextDelete]_vars

\* what callers are shown: the first account is in both classes, the second
\* in the second class only; both post and list, one call after the other
InitView == Start(Registered, Members \cup {[userId |-> 2, classId |-> 2]})

NextView ==
    \/ \E c \in Calls, via \in {"http", "socket"}, u \in UserIds, k \in {1, 2} :
          /\ QuietCalls /\ ops < MaxViewOps /\ seq.message <= MaxMessages
          /\ CreateMessage(c, via, u, k, <<"hi">>, 0)
    \/ \E c \in Calls : MessageCreate(c)
    \/ \E c \in Calls : SendMessageEmit(c)
    \/ \E c \in Calls, u \in UserIds, k \in {1, 2} :
          QuietCalls /\ ops < MaxViewOps /\ GetClassMessages(c, u, k, 0, 0)
    \/ \E c \in Calls : ListFindMany(c)
    \/ \E c \in Calls : ListCount(c)

SpecView == InitView /\ [][NextView]_vars

\* enrolling: the first account is in both classes; both accounts call
\* addClassToUser for CS 2100 in either term, one call after the other, while
\* the catalog answers or fails
NextEnroll ==
    \/ \E c \in Calls, u \in UserIds, term \in {"1262", "1268"} :
          /\ QuietCalls /\ ops < MaxEnrollOps
          /\ AddClass(c, u, "CS", "2100", term)
    \/ \E c \in Calls : SisAnswers(c)
    \/ \E c \in Calls : SisFails(c)
    \/ \E c \in Calls : SearchSet(c)
    \/ \E c \in Calls : SearchStore(c)
    \/ \E c \in Calls : SearchFallback(c)
    \/ \E c \in Calls : EnrollFindFirst(c)
    \/ \E c \in Calls : EnrollCheck(c)
    \/ \E c \in Calls : EnrollCreate(c)
    \/ \E c \in Calls : ClassesInvalidate(c)
    \/ \E c \in Calls : CommonInvalidate(c)

SpecEnroll == InitMember /\ [][NextEnroll]_vars

\* the cache is lost: the accounts read their lists, search, enroll, drop and
\* answer the friend request, one call after the other; between two calls the
\* redis server may stop answering for good
MayStart == QuietCalls /\ ops < MaxOutageOps

NextOutage ==
    \/ QuietCalls /\ RedisFails
    \/ \E c \in Calls, u \in UserIds : MayStart /\ GetFriends(c, u)
    \/ \E c \in Calls, term \in {"", "1262"} :
          MayStart /\ GetUserClasses(c, 1, term)
    \/ \E c \in Calls : MayStart /\ GetCommonClasses(c, 1, 2)
    \/ \E c \in Calls : MayStart /\ SearchClasses(c, "CS", "2100", "1262")
    \/ \E c \in Calls : MayStart /\ AddClass(c, 2, "CS", "2100", "1262")
    \/ \E c \in Calls : MayStart /\ RemoveClassFromUser(c, 1, 1)
    \/ \E c \in Calls : MayStart /\ AcceptFriendRequest(c, 1, 2)
    \/ \E c \in Calls : MayStart /\ RemoveFriend(c, 1, 1)
    \/ \E c \in Calls : FriendsFindMany(c)
    \/ \E c \in Calls : FriendsSet(c)
    \/ \E c \in Calls : UserClassesFindMany(c)
    \/ \E c \in Calls : UserClassesSet(c)
    \/ \E c \in Calls : CommonFindMany(c)
    \/ \E c \in Calls : CommonSet(c)
    \/ \E c \in Calls : SisAnswers(c)
    \/ \E c \in Calls : SisFails(c)
    \/ \E c \in Calls : SearchSet(c)
    \/ \E c \in Calls : SearchStore(c)
    \/ \E c \in Calls : SearchFallback(c)
    \/ \E c \in Calls : EnrollFindFirst(c)
    \/ \E c \in Calls : EnrollCheck(c)
    \/ \E c \in Calls : EnrollCreate(c)
    \/ \E c \in Calls : ClassesInvalidate(c)
    \/ \E c \in Calls : CommonInvalidate(c)
    \/ \E c \in Calls : FriendshipWrite(c)
    \/ \E c \in Calls : FriendshipInvalidate(c)

SpecOutage == InitBoth /\ [][NextOutage]_vars

\* ------------------------------------------------------------------ claims
Done(p, op) == proc[p].op = op /\ Free(p)

LinkOf(token) == {l \in magicLinks : l.tokenHash = Sha256(token)}

\* C1: of the verifyMagicLink calls on one token, however they interleave,
\* at most one returns successfully (and so at most one Session row is
\* created from the token).
C1_AtMostOneVerify == \A t \in Tokens : hist.okVerify[t] <= 1

\* C2: when calls run one after another, a verifyMagicLink call that finds
\* its link present, unexpired and unused succeeds, and no token verifies
\* twice: a call fails only for one of the three causes.
C2_FirstVerifySucceeds ==
    /\ \A t \in Tokens : hist.okVerify[t] <= 1
    /\ \A p \in Procs :
          (Done(p, "verify") /\ proc[p].res.status = "error")
              => proc[p].res.cause \in {"absent", "expired", "used"}

\* C3: a verifyMagicLink call made at a time later than the link's expiresAt
\* fails at once and leaves every row as it was, used or not.
C3_ExpiredLinkFails ==
    [][\A p \in Procs, t \in Tokens :
          (VerifyMagicLink(p, t) /\ \E l \in LinkOf(t) : clock > l.expiresAt)
              => /\ proc'[p].pc = "done"
                 /\ proc'[p].res.status = "error"
                 /\ UNCHANGED <<users, magicLinks, sessions>>]_vars

C3_Witness ==
    \E p \in Procs :
        /\ Done(p, "verify")
        /\ proc[p].res.status = "error"
        /\ \E l \in LinkOf(proc[p].token) : ~l.used /\ clock > l.expiresAt
        /\ sessions = {}

\* C4: the response to a failed verify is the same whether the token was
\* unknown, expired or already used.
C4_OneFailureResponse == Cardinality(hist.denied) <= 1

\* C5: verifyMagicLink is all-or-nothing: a MagicLink row that is used and
\* that no call in flight is still consuming has had its Session created.
C5_AllOrNothing ==
    \A l \in magicLinks :
        l.used => \/ l.id \in hist.sessionFor
                  \/ \E p \in Procs : /\ proc[p].op = "verify"
                                      /\ ~Free(p)
                                      /\ \E k \in proc[p].link : k.id = l.id

\* C6: the user a successful verifyMagicLink returns has emailVerified true.
C6_ReturnsVerifiedUser ==
    \A p \in Procs :
        (Done(p, "verify") /\ proc[p].res.status = "ok")
            => \A u \in proc[p].res.user : u.emailVerified

\* C7: a validateToken call that starts after logout of its credential has
\* completed fails with the session-expired error, the credential's
\* signature being still valid.
C7_LoggedOutSessionExpired ==
    \A p \in Procs :
        (Done(p, "validate") /\ proc[p].flag /\ proc[p].cred.sig = "valid"
           /\ proc[p].res.cause # "jwt")
            => /\ proc[p].res.status = "error"
               /\ proc[p].res.message = "Session expired"

\* C8: a socket connection is accepted only for a credential that has a
\* live Session row at the time of the handshake.
C8_SocketNeedsLiveSession ==
    [][\A k \in sockets' \ sockets :
          SessionLive({s \in sessions : s.tokenHash = Sha256(k.token)}, clock)]_vars

\* C9: logout always completes successfully and leaves no Session row for
\* the credential; when the row is already absent it changes no state, so a
\* second logout leaves the state of the first.
C9_LogoutIdempotent ==
    [][\A p \in Procs, c \in Credentials :
          Logout(p, c)
              => /\ proc'[p].res.status = "ok"
                 /\ \A s \in sessions' : s.tokenHash # Sha256(c)
                 /\ (\A s \in sessions : s.tokenHash # Sha256(c))
                        => UNCHANGED <<users, magicLinks, sessions, outbox,
                                       sockets, seq>>]_vars

C9_Witness ==
    \E p \in Procs :
        /\ Done(p, "logout")
        /\ proc[p].flag
        /\ proc[p].cred \in hist.issued
        /\ proc[p].res.status = "ok"

\* C10: requestMagicLink with an email that does not end with the
\* institution domain fails at once: no row is read or written, no token
\* is generated and nothing is handed to the email collaborator.
C10_ForeignEmailRejected ==
    [][\A p \in Procs, e \in EmailInputs :
          (RequestMagicLink(p, e) /\ (Len(e) = 0 \/ e[Len(e)] # "@virginia.edu"))
              => /\ proc'[p].pc = "done"
                 /\ proc'[p].res.status = "error"
                 /\ UNCHANGED <<users, magicLinks, sessions, outbox, seq>>]_vars

C10_Witness ==
    \E p \in Procs :
        /\ Done(p, "request")
        /\ proc[p].res.cause = "domain"
        /\ proc[p].email = <<"bob", "@virginia.edu", " ">>
        /\ users = {} /\ magicLinks = {} /\ outbox = {}


\* C11: every magic link a requestMagicLink call stores is one new row,
\* unused, for the user of the normalized address, expiring 15 minutes after
\* the moment the call generated its token; nothing else in the call adds a
\* link; a User row is created only for an address that had none, and no two
\* User rows ever share a normalized address.
C11_OneLinkOneUser ==
    [][/\ \A u1, u2 \in users' : u1.email = u2.email => u1 = u2
       /\ Cardinality(users' \ users) <= 1
       /\ \A u \in users' \ users : ~\E x \in users : x.email = u.email
       /\ \A p \in Procs :
             (proc[p].pc # "createLink" /\ proc'[p].pc = "createLink")
                 => proc'[p].exp = clock + 15 * 60 * 1000
       /\ magicLinks' # magicLinks
             => \E p \in Procs :
                   /\ At(p, "request", "createLink")
                   /\ proc'[p].pc = "sendEmail"
                   /\ magicLinks \subseteq magicLinks'
                   /\ Cardinality(magicLinks' \ magicLinks) = 1
                   /\ \A l \in magicLinks' \ magicLinks :
                         /\ ~l.used
                         /\ l.expiresAt = proc[p].exp
                         /\ l.tokenHash = Sha256(proc[p].token)
                         /\ \E u \in users :
                               u.id = l.userId /\ u.email = Normalize(proc[p].email)
       /\ \A p \in Procs :
             (At(p, "request", "createLink") /\ proc'[p].pc = "sendEmail")
                 => magicLinks' # magicLinks]_vars

\* two first requests for one address raced: one stored its link, the other
\* lost on the unique email, and one User row exists
C11_Witness ==
    \E p, q \in Procs :
        /\ Done(p, "request") /\ proc[p].res.status = "ok"
        /\ Done(q, "request") /\ proc[q].res.message = "P2002"
        /\ Normalize(proc[p].email) = Normalize(proc[q].email)
        /\ Cardinality(users) = 1
        /\ \E l \in magicLinks : ~l.used /\ l.expiresAt >= MagicLinkTTL

FlagsInFlight(id) == {c \in InFlight("flag") : call[c].msgId = id}

\* C12: in every state, between the store writes of a flagMessage call
\* included, a message with five or more flags is hidden.
C12_FlaggedIsHidden ==
    \A m \in classMessages : m.flaggedCount >= 5 => m.hidden

\* C13: once k flagMessage calls on a message have completed and none is in
\* flight, its flaggedCount is k and it is hidden exactly when k >= 5.
C13_CountAndHide ==
    \A m \in classMessages :
        FlagsInFlight(m.id) = {}
            => /\ m.flaggedCount = chat.flagged[m.id]
               /\ m.hidden <=> chat.flagged[m.id] >= 5

\* five completed flags, the same caller among them, and the message hidden
C13_Witness ==
    \E m \in classMessages :
        /\ FlagsInFlight(m.id) = {}
        /\ chat.flagged[m.id] = 5 /\ m.hidden
        /\ \A c \in Calls : call[c].op = "flag" => call[c].userId = 1

\* C14: concurrent flagMessage calls lose no update: flaggedCount is the
\* number of calls that have performed their increment, completed or not,
\* and once all have completed a count of at least 5 means hidden.
C14_NoLostFlag ==
    \A m \in classMessages :
        /\ m.flaggedCount = chat.flagged[m.id] +
               Cardinality({c \in Calls : AtCall(c, "flag", "hide")
                                             /\ call[c].msgId = m.id})
        /\ (FlagsInFlight(m.id) = {} /\ m.flaggedCount >= 5) => m.hidden

\* a call completed its increment while another, which had read the row
\* before that increment, still waits to perform its own
C14_Witness ==
    \E c, d \in Calls :
        /\ call[c].op = "flag" /\ FreeCall(c) /\ call[c].res.status = "ok"
        /\ AtCall(d, "flag", "increment")
        /\ call[d].msgId = call[c].msgId
        /\ TheOne(call[d].seen).flaggedCount
               < TheOne(call[c].res.row).flaggedCount

\* C15: no step of any operation turns hidden back to false or lowers
\* flaggedCount of a message.
C15_HiddenMonotonic ==
    [][\A m \in classMessages, n \in classMessages' :
          n.id = m.id => /\ (m.hidden => n.hidden)
                         /\ n.flaggedCount >= m.flaggedCount]_vars

\* a hidden message was flagged again and stayed hidden
C15_Witness ==
    \E m \in classMessages :
        /\ m.hidden /\ m.flaggedCount >= 6 /\ FlagsInFlight(m.id) = {}

\* C16: the page getClassMessages reads holds only rows of the requested
\* class that are not hidden at the read, without repeats, newest first, and
\* the call returns that page.
C16_ListOnlyVisible ==
    [][\A c \in Calls :
          /\ (AtCall(c, "list", "findMany") /\ call'[c].pc = "count")
                => LET page == call'[c].page
                   IN /\ \A i \in 1..Len(page) :
                            /\ page[i].row \in classMessages
                            /\ page[i].row.classId = call[c].classId
                            /\ ~page[i].row.hidden
                      /\ \A i, j \in 1..Len(page) :
                            i < j => /\ page[i].row.createdAt >= page[j].row.createdAt
                                     /\ page[i].row.id # page[j].row.id
          /\ (AtCall(c, "list", "count") /\ call'[c].pc = "done")
                => call'[c].res.page = call[c].page]_vars

\* a page was read while a hidden message of the class was in the store
C16_Witness ==
    \E c \in Calls :
        /\ AtCall(c, "list", "count")
        /\ Len(call[c].page) >= 1
        /\ \E m \in call[c].seen : m.hidden /\ m.classId = call[c].classId

\* C17: the replyCount read for every listed message is the number of its
\* replies that are not hidden at the read, and the call returns it.
C17_ReplyCount ==
    [][\A c \in Calls :
          /\ (AtCall(c, "list", "findMany") /\ call'[c].pc = "count")
                => \A i \in 1..Len(call'[c].page) :
                      call'[c].page[i].replyCount =
                          Cardinality({r \in classMessages :
                              /\ r.parentMessageId = call'[c].page[i].row.id
                              /\ ~r.hidden})
          /\ (AtCall(c, "list", "count") /\ call'[c].pc = "done")
                => \A i \in 1..Len(call[c].page) :
                      call'[c].res.page[i].replyCount = call[c].page[i].replyCount]_vars

\* C18: getClassMessages reports as total the number of visible messages of
\* the class and as hasMore whether offset + returned < total; when no row
\* changed between its two reads, hasMore holds exactly when some visible
\* message that was not returned has room behind the page, at least
\* offset + returned other visible messages being as new as it is.
C18_Pagination ==
    [][\A c \in Calls :
          (AtCall(c, "list", "count") /\ call'[c].pc = "done")
              => LET out      == call'[c].res
                     visible  == {m \in classMessages :
                                     m.classId = call[c].classId /\ ~m.hidden}
                     returned == {out.page[i].row : i \in 1..Len(out.page)}
                     reach    == call[c].offset + Len(out.page)
                 IN /\ out.total = Cardinality(visible)
                    /\ out.hasMore <=> reach < out.total
                    /\ call[c].seen = classMessages
                          => (out.hasMore <=>
                                \E m \in visible \ returned :
                                    Cardinality({x \in visible \ {m} :
                                        x.createdAt >= m.createdAt}) >= reach)]_vars

\* a listing returned one of two visible messages and reported more
C18_Witness ==
    \E c \in Calls :
        /\ call[c].op = "list" /\ FreeCall(c) /\ call[c].res.status = "ok"
        /\ Len(call[c].res.page) = 1
        /\ call[c].res.total = 2
        /\ call[c].res.hasMore

\* C19: a createMessage call, over HTTP or from a socket, by a user without a
\* UserClass row for the class ends at once with an error, inserts no
\* ClassMessage and broadcasts nothing.
C19_NotEnrolledNoPost ==
    [][\A c \in Calls :
          (/\ FreeCall(c) /\ call'[c] # call[c] /\ call'[c].op = "post"
           /\ ~\E e \in userClasses : /\ e.userId = call'[c].userId
                                       /\ e.classId = call'[c].classId)
              => /\ call'[c].pc = "done"
                 /\ call'[c].res.status = "error"
                 /\ classMessages' = classMessages
                 /\ \A e \in emitted' \ emitted : e.event # "new-message"]_vars

\* a socket of a user outside the class sent a message while a member was
\* enrolled: the sender got the error, nothing was stored or broadcast
C19_Witness ==
    \E c \in Calls :
        /\ call[c].op = "post" /\ FreeCall(c) /\ call[c].via = "socket"
        /\ call[c].res.message = NotEnrolledToPost
        /\ \E e \in userClasses :
              e.classId = call[c].classId /\ e.userId # call[c].userId
        /\ \E e \in emitted : e.event = "error" /\ e.to = call[c].userId
        /\ classMessages = {}
        /\ \A e \in emitted : e.event # "new-message"

\* C20: a post rejected because the caller is not enrolled is answered over
\* HTTP with 403 Forbidden and the not-enrolled message, never with 500.
C20_NotEnrolledIs403 ==
    \A c \in Calls :
        (/\ call[c].op = "post" /\ FreeCall(c) /\ call[c].via = "http"
         /\ call[c].res.message = NotEnrolledToPost)
            => /\ call[c].http.status = 403
               /\ call[c].http.error = "Forbidden"
               /\ call[c].http.message = NotEnrolledToPost

\* C21: a member's createMessage is accepted exactly when the content, once
\* trimmed, has 1 to 1000 characters; what is then stored is the trimmed
\* content with every '<' and '>' escaped; content that is empty once
\* trimmed is refused as a validation error.
C21_ContentAccepted ==
    [][\A c \in Calls, via \in {"http", "socket"}, content \in ContentInputs :
          CreateMessage(c, via, 1, 1, content, 0)
              => LET trimmed == Trim(content)
                     fits    == Length(trimmed) >= 1 /\ Length(trimmed) <= 1000
                 IN /\ (call'[c].pc = "create") <=> fits
                    /\ fits => call'[c].content =
                                   [i \in 1..Len(trimmed) |-> Escape(trimmed[i])]
                    /\ (Length(trimmed) = 0 /\ via = "http")
                           => call'[c].http.status = 400]_vars

\* C22: every ClassMessage is created with flaggedCount 0, hidden false and
\* the identifier derived from (userId, classId), so all messages of one user
\* in one class carry the same identifier.
C22_AnonymousId ==
    [][\A m \in classMessages' \ classMessages :
          /\ m.flaggedCount = 0 /\ m.hidden = FALSE
          /\ m.anonymousIdentifier = GenerateAnonymousId(m.userId, m.classId)
          /\ \A n \in classMessages' :
                (n.userId = m.userId /\ n.classId = m.classId)
                    => n.anonymousIdentifier = m.anonymousIdentifier]_vars

\* two messages of one user in one class are stored
C22_Witness ==
    \E m \in classMessages, n \in classMessages :
        m.id # n.id /\ m.userId = n.userId /\ m.classId = n.classId

\* C23: whatever sendFriendRequest, accept, reject and remove calls have run,
\* at most one Friendship row exists for each unordered pair of users.
C23_OneRowPerPair ==
    \A f \in friendships, g \in friendships :
        ({f.userId1, f.userId2} = {g.userId1, g.userId2}) => f = g

\* the call in slot c starts in this step
Starts(c) == ops' = ops + 1 /\ call'[c] # call[c]

\* C24: a Friendship becomes ACCEPTED or REJECTED only in a call of its
\* recipient and is deleted only in a call of one of its two users; a call
\* by anyone else fails as not authorized and changes neither the row nor
\* the friends caches.
C24_OnlyTheParties ==
    [][\A f \in friendships :
          /\ (\E g \in friendships' :
                  /\ g.id = f.id /\ g.status # f.status
                  /\ g.status \in {"ACCEPTED", "REJECTED"})
                => \E c \in Calls :
                      /\ call'[c] # call[c]
                      /\ call[c].op \in {"accept", "reject"}
                      /\ call[c].userId = f.userId2
          /\ (~\E g \in friendships' : g.id = f.id)
                => \E c \in Calls :
                      /\ call'[c] # call[c]
                      /\ call[c].op = "remove"
                      /\ call[c].userId \in {f.userId1, f.userId2}
          /\ \A c \in Calls :
                (/\ Starts(c)
                 /\ call'[c].other = f.id
                 /\ \/ /\ call'[c].op \in {"accept", "reject"}
                       /\ call'[c].userId # f.userId2
                    \/ /\ call'[c].op = "remove"
                       /\ call'[c].userId \notin {f.userId1, f.userId2})
                  => /\ call'[c].res.status = "error"
                     /\ call'[c].res.message \in
                            {NotAuthorized(call'[c].op, w) :
                                w \in {"request", "friendship"}}
                     /\ call'[c].http.status = 403
                     /\ friendships' = friendships
                     /\ cache' = cache]_vars

\* someone who is not in the request has tried to remove it, was refused,
\* and the row and a cached friends list are still there
C24_Witness ==
    /\ \E c \in Calls :
          /\ call[c].op = "remove" /\ call[c].userId = 3 /\ call[c].pc = "done"
          /\ call[c].res.message = NotAuthorized("remove", "friendship")
    /\ \E f \in friendships : f.id = 1 /\ f.status = "ACCEPTED"
    /\ cache # {}

\* accept or remove calls in flight
Changing == InFlight("accept") \cup InFlight("remove")

\* C27: once acceptFriendRequest or removeFriend has completed, a getFriends
\* call of either user that starts afterwards returns exactly the ACCEPTED
\* friendships of the user in the store, whatever getFriends calls were in
\* progress during the accept or remove.
C27_FriendsFresh ==
    [][\A c \in Calls :
          (Starts(c) /\ call'[c].op = "friends" /\ call'[c].pc = "done"
               /\ Changing = {})
              => call'[c].res.row = FriendsOf(friendships, call'[c].userId)]_vars

\* C25: once addClassToUser or removeClassFromUser of a user has completed,
\* a getUserClasses call for the user that starts afterwards, with or without
\* a term, returns exactly the enrollments of the user in the store.
C25_ClassesFresh ==
    [][\A c \in Calls :
          (Starts(c) /\ call'[c].op = "classes" /\ call'[c].pc = "done"
               /\ Enrolling = {})
              => call'[c].res.row =
                     {e \in userClasses :
                         /\ e.userId = call'[c].userId
                         /\ call'[c].term # "" =>
                                TermOf(e.classId) = call'[c].term}]_vars

\* C26: once the enroll or drop of a user has completed, a getCommonClasses
\* call that starts afterwards returns the classes the two users share in
\* the store, whichever of the two is the caller.
C26_CommonFresh ==
    [][\A c \in Calls :
          (Starts(c) /\ call'[c].op = "common" /\ call'[c].pc = "done"
               /\ Enrolling = {})
              => call'[c].res.row =
                     {k \in Classes :
                         \A u \in {call'[c].userId, call'[c].other} :
                            [userId |-> u, classId |-> k] \in userClasses}]_vars

\* C28: when the catalog call fails on a cache miss, searchClasses returns the
\* Class rows of the store for the subject, catalog number and term if there
\* are any and fails as service unavailable only if there are none; neither
\* the failure nor the fallback writes a cache entry.
C28_SearchFallback ==
    [][\A c \in Calls :
          /\ (AtCall(c, "search", "fetch") /\ call'[c].pc = "fallback")
                => cache' = cache
          /\ (AtCall(c, "search", "fallback") /\ call'[c] # call[c])
                => LET rows == {s \in classes :
                                   /\ s.subject = ToUpperCase(call[c].query[1])
                                   /\ s.catalogNumber = call[c].query[2]
                                   /\ s.term = call[c].term}
                   IN /\ cache' = cache
                      /\ call'[c].pc = "done"
                      /\ IF rows # {}
                         THEN /\ call'[c].res.status = "ok"
                              /\ call'[c].res.row = rows
                              /\ call'[c].http.status = 200
                         ELSE /\ call'[c].res.status = "error"
                              /\ call'[c].http.status = 503
                              /\ call'[c].http.error = "Service Unavailable"]_vars

\* the catalog failed on a search typed in lower case, the stored rows of the
\* course were returned and no entry was cached for the query
C28_Witness ==
    \E c \in Calls :
        /\ call[c].op = "search" /\ call[c].pc = "done"
        /\ call[c].query = <<"cs", "3100">>
        /\ call[c].res.status = "ok"
        /\ call[c].res.row # {} /\ call[c].res.row \subseteq classes
        /\ ~\E e \in cache : e.key = SearchKey("cs", "3100", call[c].term)

\* C29: every successful post to a class, over HTTP or from a socket, is
\* followed by a new-message broadcast to the sockets that are in the room of
\* the class at that time.
C29_PostIsBroadcast ==
    [][\A c \in Calls :
          (/\ call[c].op = "post" /\ ~FreeCall(c)
           /\ call'[c].pc = "done" /\ call'[c].res.status = "ok")
              => \E e \in emitted' :
                    /\ e.event = "new-message"
                    /\ e.room = call[c].classId
                    /\ \E m \in call'[c].res.row : e.msgId = m.id
                    /\ e.recipients = InRoom(call[c].classId)]_vars

\* C30: the new-message broadcasts of two messages posted to one class from
\* sockets go out in the order in which the messages were stored.
C30_BroadcastOrder ==
    \A e \in Broadcasts, f \in Broadcasts :
        (e.room = f.room /\ e.msgId < f.msgId) => e.order < f.order

\* C31: within one limiter window (one hour) a user creates at most 30
\* ClassMessage rows in one class, whether posted over HTTP or from a socket
C31_ThirtyPerWindow ==
    \A u \in UserIds, k \in Classes, first \in classMessages :
        Cardinality({m \in classMessages :
                        /\ m.userId = u /\ m.classId = k
                        /\ first.createdAt <= m.createdAt
                        /\ m.createdAt < first.createdAt + MessageWindow})
            <= MessageMax

\* C32: once deleteAccount has completed no Session, MagicLink, UserClass,
\* Friendship or ClassMessage row refers to the deleted user, and validateToken
\* fails for every credential issued to that user
Referential ==
    LET ids == {u.id : u \in users}
    IN /\ \A s \in sessions : s.userId \in ids
       /\ \A l \in magicLinks : l.userId \in ids
       /\ \A e \in userClasses : e.userId \in ids
       /\ \A f \in friendships : f.userId1 \in ids /\ f.userId2 \in ids
       /\ \A m \in classMessages : m.userId \in ids

C32_DeletedIsGone ==
    [][ /\ Referential'
        /\ \A p \in Procs :
              ( /\ ops' = ops + 1
                /\ proc'[p] # proc[p]
                /\ proc'[p].op = "validate"
                /\ ~\E u \in users : u.id = proc'[p].cred.userId )
              => Done(p, "validate")' /\ proc'[p].res.status = "error" ]_vars

C32_Witness ==
    /\ ~\E u \in users : u.id = 1
    /\ seq.message > 1
    /\ seq.session > 1
    /\ \E p \in Procs :
          /\ Done(p, "validate")
          /\ proc[p].cred \in hist.issued
          /\ proc[p].cred.userId = 1
          /\ proc[p].res.status = "error"

\* C33: the store holds only hashes of credentials: the tokenHash of every
\* MagicLink row is the digest of a token and that of every Session row the
\* digest of a credential, and what requestMagicLink hands back to its caller
\* carries no token: the token reaches only the email collaborator
C33_OnlyHashes ==
    /\ \A l \in magicLinks : \E t \in Tokens : l.tokenHash = Sha256(t)
    /\ \A s \in sessions : \E c \in hist.issued : s.tokenHash = Sha256(c)
    /\ \A p \in Procs :
          Done(p, "request") =>
              /\ proc[p].res.user = {}
              /\ proc[p].res.jwt = NoCred
              /\ proc[p].res.status = "ok" =>
                     \E e \in outbox : LinkOf(e.token) # {}

C33_Witness ==
    /\ magicLinks # {}
    /\ sessions # {}
    /\ \E p \in Procs : Done(p, "request") /\ proc[p].res.status = "ok"

\* C34: what a caller receives about a message (list response, post response,
\* new-message broadcast) has no userId field; beside the fields of the
\* message itself it carries only anonymousIdentifier and, in a list,
\* isOwnMessage, which is true exactly when the caller owns the message
Shown == {"id", "anonymousIdentifier", "content", "createdAt", "replyCount"}

Settled(c, op) == call[c].op = op /\ FreeCall(c)

C34_NoOwnerShown ==
    /\ \A c \in Calls :
          Settled(c, "list") /\ call[c].http.status = 200 =>
              /\ DOMAIN call[c].body = DOMAIN call[c].res.page
              /\ \A i \in DOMAIN call[c].body :
                    LET view == call[c].body[i]
                        row  == call[c].res.page[i].row
                    IN /\ DOMAIN view = Shown \cup {"isOwnMessage"}
                       /\ view.id = row.id
                       /\ view.content = row.content
                       /\ view.createdAt = row.createdAt
                       /\ view.anonymousIdentifier = row.anonymousIdentifier
                       /\ view.isOwnMessage <=> row.userId = call[c].userId
    /\ \A c \in Calls :
          Settled(c, "post") /\ call[c].http.status = 201 =>
              /\ Len(call[c].body) = 1
              /\ DOMAIN call[c].body[1] = Shown
    /\ \A e \in Broadcasts :
          /\ Len(e.message) = 1
          /\ DOMAIN e.message[1] = Shown

C34_Witness ==
    /\ Broadcasts # {}
    /\ \E c \in Calls :
          /\ Settled(c, "list") /\ call[c].http.status = 200
          /\ \E i, j \in DOMAIN call[c].body :
                call[c].body[i].isOwnMessage /\ ~call[c].body[j].isOwnMessage

\* C35: listing needs no enrollment: the list request of a user who is not
\* enrolled in the class succeeds and shows the messages of the others with
\* isOwnMessage = false, and the list of the author shows them with true
C35_ListWithoutEnrollment ==
    \A c \in Calls :
        ( /\ Settled(c, "list")
          /\ \E m \in classMessages :
                /\ m.classId = call[c].classId
                /\ Enrollment(userClasses, m.userId, m.classId) # {} )
        => /\ call[c].http.status = 200
           /\ \A m \in Visible(classMessages, call[c].classId) :
                 \E i \in DOMAIN call[c].body :
                    /\ call[c].body[i].id = m.id
                    /\ call[c].body[i].isOwnMessage <=> m.userId = call[c].userId

\* C36: when the email collaborator fails, requestMagicLink fails with the
\* email-delivery error and leaves no row behind: once such a call has failed
\* and no call is in flight, every MagicLink row and every User row belongs to
\* a request whose email was delivered
C36_EmailFailureNoMutation ==
    ( /\ Quiet
      /\ \E p \in Procs : Done(p, "request") /\ proc[p].res.cause = "email" )
    => /\ \A l \in magicLinks : \E e \in outbox : l.tokenHash = Sha256(e.token)
       /\ \A u \in users : \E e \in outbox : e.to = u.email

\* C37: at most one UserClass row exists per (user, class), and addClassToUser
\* for a pair that is already enrolled fails with the already-enrolled error
\* and leaves the store and the caches unchanged
EnrolledFor(slot) ==
    \E s \in classes :
        /\ s.subject = slot.query[1]
        /\ s.catalogNumber = slot.query[2]
        /\ s.term = slot.term
        /\ Enrollment(userClasses, slot.userId, s.id) # {}

C37_AlreadyEnrolledNoChange ==
    [][ /\ \A e, f \in userClasses' :
              e.userId = f.userId /\ e.classId = f.classId => e = f
        /\ \A c \in Calls :
              ( /\ call[c].op = "enroll" /\ ~FreeCall(c)
                /\ call[c].pc \notin {"del", "keys", "delKeys"}
                /\ EnrolledFor(call[c])
                /\ call'[c] # call[c] )
              => /\ cache' = cache
                 /\ classes' = classes
                 /\ userClasses' = userClasses
                 /\ FreeCall(c)' => call'[c].res.message = AlreadyEnrolled ]_vars

\* C38: acceptFriendRequest and rejectFriendRequest change the status of a
\* Friendship only when it is PENDING: a call that has read a row that is
\* ACCEPTED, REJECTED or BLOCKED leaves the Friendship rows as they are
C38_OnlyPendingAnswered ==
    [][ \A c \in Calls :
            ( /\ call[c].op \in {"accept", "reject"}
              /\ call[c].pc = "write"
              /\ call'[c] # call[c]
              /\ \A f \in call[c].seen : f.status # "PENDING" )
            => friendships' = friendships ]_vars

\* C39: a failure of the cache never fails an operation and never changes its
\* result: while every cache command errors, getFriends, getUserClasses,
\* getCommonClasses and searchClasses return what the store or the catalog
\* holds, and enroll, drop, accept and remove complete their store writes
\* whenever they succeed, and fail only with the errors of the store, of the
\* catalog or of their own checks
FromStore(c) ==
    LET slot == call[c]
        out  == slot.res
        row  == {f \in friendships : f.id = slot.other}
    IN CASE slot.op = "friends" ->
               /\ out.status = "ok"
               /\ out.row = FriendsOf(friendships, slot.userId)
         [] slot.op = "classes" ->
               /\ out.status = "ok"
               /\ out.row = ClassesOf(userClasses, classes, slot.userId, slot.term)
         [] slot.op = "common" ->
               /\ out.status = "ok"
               /\ out.row = ClassIdsOf(userClasses, slot.userId)
                                \cap ClassIdsOf(userClasses, slot.other)
         [] slot.op = "search" ->
               LET stored == StoredFor(classes, slot.query[1], slot.query[2],
                                       slot.term)
               IN IF out.status = "ok"
                  THEN out.row \in {stored,
                                    SisCatalog(ToUpperCase(slot.query[1]),
                                               slot.query[2], slot.term)}
                  ELSE out.message = FailedToFetch /\ stored = {}
         [] slot.op = "enroll" ->
               IF out.status = "ok"
               THEN Enrollment(userClasses, slot.userId, slot.classId) # {}
               ELSE out.message \in {AlreadyEnrolled, ClassNotInSis,
                                     ClassNotInDatabase, FailedToFetch,
                                     <<"P2002">>, <<"P2003">>}
         [] slot.op = "drop" ->
               IF out.status = "ok"
               THEN Enrollment(userClasses, slot.userId, slot.classId) = {}
               ELSE out.message = <<"P2025">>
         [] slot.op = "accept" ->
               IF out.status = "ok"
               THEN \E f \in row : f.status = "ACCEPTED"
               ELSE out.message \in {RequestNotFound, <<"P2025">>,
                                     NotAuthorized("accept", "request")}
         [] slot.op = "remove" ->
               IF out.status = "ok" THEN row = {}
               ELSE out.message \in {FriendshipNotFound, <<"P2025">>,
                                     NotAuthorized("remove", "friendship")}
         [] OTHER -> TRUE

====
